---- MODULE Spec2Model ----
(***************************************************************************)
(* Model of the data-acquisition engine of DataCon:                        *)
(*   - collect_data / create_collection_task                               *)
(*       (dc_collector/services/enhanced_collector.py)                     *)
(*   - ProxyPool, CookiePool, RateLimiter                                  *)
(*       (dc_core/services/anti_crawler.py)                                *)
(* Each component has its own specification over the shared variable       *)
(* tuple; the variables of the other components stay at their initial      *)
(* value.                                                                  *)
(***************************************************************************)
EXTENDS Integers, Sequences, FiniteSets, TLC

VARIABLES
    \* ---- collection task (enhanced_collector.py) ----
    rows,        \* Dataset table: handle id -> persisted row
    dataset,     \* the `dataset` local of each collect_data run
    requirement, \* the `requirement` argument of each run
    pc,          \* position of each run in collect_data
    data,        \* the `data` local of each run
    exc,         \* exception in flight in each run ("" when none)
    raised,      \* exception that left collect_data ("" when none)
    stored,      \* save_dataset has returned for the handle
    statusLog,   \* history: the status values persisted for the handle
    received,    \* history: what the fetch of the run received, or how it failed
                 \* (NoData = no fetch)
    \* ---- ProxyPool (anti_crawler.py) ----
    proxy_pool,    \* redis set  "proxy_pool"
    proxy_scores,  \* redis hash "proxy_scores": proxy -> score
    hcPending,     \* proxies of the running health-check pass not yet probed
    pxOp,          \* whether the last ProxyPool operation was get_proxy, and its result
    evicted,       \* history: proxies whose score update_score brought to 0, not added since
    \* ---- CookiePool (anti_crawler.py) ----
    cookie_pool,    \* redis sets "cookie_pool:<domain>"
    cookie_counter, \* redis hash "cookie_counter": cookie -> count
    ckOp,           \* the last CookiePool operation and its result
    burst,          \* history: run of get(domain) calls on a fresh sole cookie
    \* ---- RateLimiter (anti_crawler.py) ----
    now,         \* time.time(), in seconds
    rate_count,  \* redis keys "rate_limit:<domain>:<window>": value, 0 = no key
    rate_expire, \* expiry deadline of each key (0 = none)
    rl,          \* each collector's position in acquire and its locals
    calls,       \* history: acquire calls started, per key
    granted,     \* history: acquire calls that returned True, per key
    \* ---- create_collection_task (enhanced_collector.py) ----
    createResult, \* what create_collection_task gave its caller, per handle
    \* ---- CookiePool.get_cookie run by several collectors ----
    cc,          \* each collector's position in get_cookie and its locals
    handouts,    \* history: times each cookie was returned since it was added
    ckEvicted,   \* history: cookies a get_cookie run removed, not added since
    lateHandout, \* history: cookies returned after their eviction had finished
    \* ---- clean_data / validate_data_privacy (enhanced_collector.py) ----
    raw_data,    \* the records handed to clean_data
    fields,      \* the fields handed to clean_data
    cleaned,     \* results of clean_data: once, and on its own result
    privacy,     \* argument and result of validate_data_privacy
    \* ---- AntiCrawler.make_request (anti_crawler.py) ----
    ex,          \* position and locals of the make_request call in progress
    trace,       \* history: the steps of the call in progress, in order
    feedback,    \* history: the update_score calls of the call in progress
    attempts,    \* history: make_request calls started
    \* ---- ProxyPool run by several threads (anti_crawler.py) ----
    pt,          \* each thread's position in its ProxyPool call and its locals
    held,        \* proxies a thread got from the pool and will report on
    episode,     \* history per proxy: its score when added, the updates since
    puStarted,   \* history: update_score calls started
    \* ---- ProxyPool: decay of a failing proxy (anti_crawler.py) ----
    streak,      \* history per proxy: the run of updates since its score was `base`
    failing,     \* proxies that fail every probe and request from now on
    \* ---- RateLimiter.wait_if_needed (anti_crawler.py) ----
    wt,          \* each caller's position in wait_if_needed and its locals
    \* ---- collect_stream_data (enhanced_collector.py) ----
    sd,          \* position and locals of the collect_stream_data call, the
                 \* frames still to arrive and, as history, those received and
                 \* the callback's invocations
    \* ---- EnhancedDataCollector._check_rate_limit (enhanced_collector.py) ----
    throttle     \* datetime.now(), _request_count, _last_request_time and, as
                 \* history, the times at which the calls returned

collectVars == <<rows, dataset, requirement, pc, data, exc, raised, stored, statusLog,
                 received, createResult>>
proxyVars   == <<proxy_pool, proxy_scores, hcPending, pxOp, evicted>>
cookieVars  == <<cookie_pool, cookie_counter, ckOp, burst>>
rateVars    == <<now, rate_count, rate_expire, rl, calls, granted>>
ccVars      == <<cc, handouts, ckEvicted, lateHandout>>
cleanVars   == <<raw_data, fields, cleaned, privacy>>
execVars    == <<ex, trace, feedback, attempts>>
pconcVars   == <<pt, held, episode, puStarted>>
decayVars   == <<streak, failing>>
waitVars    == <<wt>>
streamVars  == <<sd>>
throttleVars == <<throttle>>
vars        == <<collectVars, proxyVars, cookieVars, rateVars, ccVars, cleanVars, execVars,
                 pconcVars, decayVars, waitVars, streamVars, throttleVars>>

\* Each component's steps leave the other components' state alone.
OnlyCollect == UNCHANGED <<proxyVars, cookieVars, rateVars, ccVars, cleanVars, execVars,
                           pconcVars, decayVars, waitVars, streamVars,
                           throttleVars>>
OnlyProxy   == UNCHANGED <<collectVars, cookieVars, rateVars, ccVars, cleanVars, execVars,
                           pconcVars, decayVars, waitVars, streamVars,
                           throttleVars>>
OnlyCookie  == UNCHANGED <<collectVars, proxyVars, rateVars, ccVars, cleanVars, execVars,
                           pconcVars, decayVars, waitVars, streamVars,
                           throttleVars>>
OnlyRate    == UNCHANGED <<collectVars, proxyVars, cookieVars, ccVars, cleanVars, execVars,
                           pconcVars, decayVars, waitVars, streamVars,
                           throttleVars>>
OnlyCookieConc ==
    UNCHANGED <<collectVars, proxyVars, rateVars, cleanVars, execVars, pconcVars, decayVars,
                waitVars, streamVars, throttleVars, ckOp, burst>>
OnlyClean   == UNCHANGED <<collectVars, proxyVars, cookieVars, rateVars, ccVars, execVars,
                           pconcVars, decayVars, waitVars, streamVars,
                           throttleVars>>
OnlyExec    == UNCHANGED <<collectVars, ccVars, cleanVars, pconcVars, decayVars, waitVars,
                           streamVars, throttleVars, hcPending, rl>>
OnlyProxyConc ==
    UNCHANGED <<collectVars, cookieVars, rateVars, ccVars, cleanVars, execVars,
                decayVars, waitVars, streamVars, throttleVars, hcPending, pxOp,
                evicted>>
OnlyDecay ==
    UNCHANGED <<collectVars, cookieVars, rateVars, ccVars, cleanVars, execVars, pconcVars,
                waitVars, streamVars, throttleVars>>
OnlyWait    == UNCHANGED <<collectVars, proxyVars, cookieVars, ccVars, cleanVars, execVars,
                           pconcVars, decayVars, streamVars, throttleVars, rl, calls,
                           granted>>
OnlyStream  == UNCHANGED <<collectVars, proxyVars, cookieVars, rateVars, ccVars, cleanVars,
                           execVars, pconcVars, decayVars, waitVars, throttleVars>>
OnlyThrottle == UNCHANGED <<collectVars, proxyVars, cookieVars, rateVars, ccVars, cleanVars,
                            execVars, pconcVars, decayVars, waitVars, streamVars>>

(***************************************************************************)
(*                    Collection task orchestration                        *)
(***************************************************************************)

\* Largest number of records a fetch returns.
MaxRecords == 2

\* Dataset ids; each is the subject of one run of collect_data.
Handles == {1, 2}

Absent == "<absent>"

\* Values of requirement['type'] / requirement['source_type'] tried.
TypeValues == {"api", "database", "web", "stream", "ftp"}

\* The url of a requirement that has one.
Url == "https://api.example.com/data"

\* A requirement: a dict with a 'type', a dict with both keys, a dict with
\* 'source_type' only or with neither, or a value that is no dict, on
\* which DataSourceConfig raises.  These carry a url, the default method
\* and a supported db_config type.
Requirements ==
    [isDict : {TRUE}, type : TypeValues, source_type : {Absent},
     url : {Url}, method : {"GET"}, db_type : {"sqlite"}]
    \cup {[isDict |-> TRUE, type |-> "api", source_type |-> "web",
           url |-> Url, method |-> "GET", db_type |-> "sqlite"]}
    \cup [isDict : {TRUE}, type : {Absent}, source_type : {Absent, "web"},
          url : {Url}, method : {"GET"}, db_type : {"sqlite"}]
    \cup {[isDict |-> FALSE, type |-> Absent, source_type |-> Absent,
           url |-> Absent, method |-> Absent, db_type |-> Absent]}

\* Requirements that also lack a url ('url' and 'api_url' both missing or
\* empty, line 38), name another method than GET (line 39), or lack
\* db_config['type'] or name an unsupported one (lines 46, 150).
RunRequirements ==
    Requirements
    \cup [isDict : {TRUE}, type : {"api", "database", "web"}, source_type : {Absent},
          url : {Url, Absent}, method : {"GET", "POST"},
          db_type : {"sqlite", "mysql", "oracle", Absent}]

NoRequirement == [isDict |-> FALSE, type |-> Absent, source_type |-> Absent,
                  url |-> Absent, method |-> Absent, db_type |-> Absent]

\* Dataset row / ORM object: the fields collect_data touches.
NoRow == [exists |-> FALSE, status |-> "", size |-> 0, error_message |-> ""]

NewRow == [exists |-> TRUE, status |-> "pending", size |-> 0, error_message |-> ""]

\* Values a fetch strategy hands back: a dict with a 'data' list of n
\* records, a list of n records, or some other object.
FetchValues ==
    [kind : {"dict_data", "list"}, n : 0..MaxRecords]
    \cup {[kind |-> "object", n |-> 0]}

NoData == [kind |-> "none", n |-> 0]

\* Bodies an API answers a successful GET with (format json): a dict with
\* a 'data' list of n records, a list of n records, one bare object, an
\* empty (falsy) body such as {} or null, or a dict whose 'data' is no list.
ApiBodies ==
    FetchValues \cup {[kind |-> "falsy", n |-> 0], [kind |-> "dict_other", n |-> 0]}

\* Number of records a body carries; a 'data' value that is no list counts
\* as one.
BodyRecords(body) == IF body.kind \in {"object", "dict_other"} THEN 1 ELSE body.n

\* collect_from_api lines 120-128: the dict returned for a body
CollectFromApiWrapsFalsyMutant(body) ==
    CASE body.kind \in {"dict_data", "dict_other"} -> body
      [] body.kind = "list"      -> [kind |-> "dict_data", n |-> body.n]
      [] OTHER                   -> [kind |-> "dict_data", n |-> 1]

collect_from_api(body) ==
    CASE body.kind \in {"dict_data", "dict_other"} -> body
      [] body.kind = "list"      -> [kind |-> "dict_data", n |-> body.n]
      [] body.kind = "object"    -> [kind |-> "dict_data", n |-> 1]
      [] OTHER                   -> [kind |-> "dict_data", n |-> 0]

\* What create_collection_task gave its caller: nothing yet, the Dataset
\* object (with the status and size it carries), or ValueError.
NoResult == [kind |-> "none", sync |-> FALSE, status |-> "", size |-> 0]

\* DataSourceConfig.__init__: self.type
ConfigType(req) ==
    IF req.type # Absent THEN req.type
    ELSE IF req.source_type # Absent THEN req.source_type
    ELSE "api"

\* The strategy collect_data dispatches a config type to ("" = none).
StrategyForAnyTypeMutant(type) ==
    CASE type = "api"      -> "collect_from_api"
      [] type = "database" -> "collect_from_database"
      [] OTHER             -> "collect_from_web"

Strategy(type) ==
    CASE type = "api"      -> "collect_from_api"
      [] type = "database" -> "collect_from_database"
      [] type = "web"      -> "collect_from_web"
      [] OTHER             -> ""

\* What each strategy can receive on success: an API body, or the rows of
\* a query or of a page.
StrategyValues(strategy) ==
    CASE strategy = "collect_from_api"      -> ApiBodies
      [] strategy = "collect_from_database" -> {v \in FetchValues : v.kind = "list"}
      [] strategy = "collect_from_web"      -> {v \in FetchValues : v.kind = "list"}
      [] OTHER                              -> {}

\* The ValueError text each strategy raises on failure.
StrategyError(strategy) ==
    CASE strategy = "collect_from_api"      -> "ValueError: api collect failed"
      [] strategy = "collect_from_database" -> "ValueError: database collect failed"
      [] strategy = "collect_from_web"      -> "ValueError: web collect failed"
      [] OTHER                              -> ""

\* How a strategy's call can fail: the upstream answers with a non-success
\* status (raise_for_status, lines 119 and 171), the connection fails
\* (session.get / requests.get raising), or the query fails.
StrategyFailures(strategy) ==
    CASE strategy = "collect_from_api"      -> {[kind |-> "http_status", n |-> 0],
                                                [kind |-> "network", n |-> 0]}
      [] strategy = "collect_from_database" -> {[kind |-> "query", n |-> 0]}
      [] strategy = "collect_from_web"      -> {[kind |-> "http_status", n |-> 0],
                                                [kind |-> "network", n |-> 0]}
      [] OTHER                              -> {}

TransportFailures == {[kind |-> "http_status", n |-> 0], [kind |-> "network", n |-> 0]}

\* collect_from_api lines 141-143, collect_from_web lines 191-192,
\* collect_from_database lines 159-160: a failure inside the strategy
\* leaves it as ValueError ("raise"); "empty" would be a strategy that
\* handed back an empty result instead.
OnFailureEmptyMutant(strategy) == "empty"

OnFailure(strategy) == "raise"

\* collect_data lines 324-327: the record list of a received value.
NormalizeWrapsMutant(v) == [kind |-> "list", n |-> 1]

Normalize(v) ==
    LET d == IF v.kind = "dict_data" THEN [kind |-> "list", n |-> v.n] ELSE v
    IN  IF d.kind = "list" THEN d ELSE [kind |-> "list", n |-> 1]

\* dataset.save(): the row takes the object's fields; the history records
\* each change of the persisted status.
SaveRow(h, obj) ==
    /\ rows' = [rows EXCEPT ![h] = [exists |-> TRUE, status |-> obj.status,
                                    size |-> obj.size,
                                    error_message |-> obj.error_message]]
    /\ statusLog' = [statusLog EXCEPT ![h] =
                        IF rows[h].status = obj.status THEN @ ELSE Append(@, obj.status)]

InitCollect ==
    /\ rows = [h \in Handles |-> NoRow]
    /\ dataset = [h \in Handles |-> NoRow]
    /\ requirement = [h \in Handles |-> NoRequirement]
    /\ pc = [h \in Handles |-> "idle"]
    /\ data = [h \in Handles |-> NoData]
    /\ exc = [h \in Handles |-> ""]
    /\ raised = [h \in Handles |-> ""]
    /\ stored = [h \in Handles |-> FALSE]
    /\ statusLog = [h \in Handles |-> <<>>]
    /\ received = [h \in Handles |-> NoData]
    /\ createResult = [h \in Handles |-> NoResult]

\* create_collection_task lines 77-92: Dataset.objects.create(status=
\* 'pending'), then collect_data(dataset.id, requirement) run in the call
\* (sync, or delay failing), or queued by delay, in which case line 99
\* returns the pending dataset at once.
CreateCollectionTask(h, req, sync) ==
    /\ pc[h] = "idle"
    /\ req.isDict
    /\ rows' = [rows EXCEPT ![h] = NewRow]
    /\ statusLog' = [statusLog EXCEPT ![h] = <<"pending">>]
    /\ requirement' = [requirement EXCEPT ![h] = req]
    /\ pc' = [pc EXCEPT ![h] = "get"]
    /\ createResult' = [createResult EXCEPT ![h] =
                           IF sync THEN NoResult
                           ELSE [kind |-> "dataset", sync |-> FALSE,
                                 status |-> "pending", size |-> 0]]
    /\ UNCHANGED <<dataset, data, exc, raised, stored, received>>
    /\ OnlyCollect

\* create_collection_task lines 86-88 / 95-99, collect_data having
\* returned in the call: dataset.refresh_from_db(); return dataset
CreateReturns(h) ==
    /\ pc[h] = "returned"
    /\ rows[h].exists
    /\ createResult[h].kind = "none"
    /\ createResult' = [createResult EXCEPT ![h] =
                           [kind |-> "dataset", sync |-> TRUE,
                            status |-> rows[h].status, size |-> rows[h].size]]
    /\ UNCHANGED <<rows, dataset, requirement, pc, data, exc, raised, stored,
                   statusLog, received>>
    /\ OnlyCollect

\* create_collection_task lines 101-102, collect_data having raised in the
\* call: raise ValueError
CreateRaises(h) ==
    /\ pc[h] \in {"raised", "handler_raised"}
    /\ rows[h].exists
    /\ createResult[h].kind = "none"
    /\ createResult' = [createResult EXCEPT ![h] =
                           [kind |-> "ValueError", sync |-> TRUE,
                            status |-> "", size |-> 0]]
    /\ UNCHANGED <<rows, dataset, requirement, pc, data, exc, raised, stored,
                   statusLog, received>>
    /\ OnlyCollect

\* collect_data invoked as a task with an id that has no row.
CollectDataTask(h, req) ==
    /\ pc[h] = "idle"
    /\ requirement' = [requirement EXCEPT ![h] = req]
    /\ pc' = [pc EXCEPT ![h] = "get"]
    /\ UNCHANGED <<rows, dataset, data, exc, raised, stored, statusLog, received,
                   createResult>>
    /\ OnlyCollect

\* line 303: dataset = Dataset.objects.get(id=dataset_id)
GetDataset(h, dbOk) ==
    /\ pc[h] = "get"
    /\ IF rows[h].exists /\ dbOk
       THEN /\ dataset' = [dataset EXCEPT ![h] = rows[h]]
            /\ pc' = [pc EXCEPT ![h] = "processing"]
            /\ UNCHANGED exc
       ELSE /\ exc' = [exc EXCEPT ![h] =
                          IF rows[h].exists THEN "OperationalError: database"
                          ELSE "DoesNotExist: Dataset"]
            /\ pc' = [pc EXCEPT ![h] = "except"]
            /\ UNCHANGED dataset
    /\ UNCHANGED <<rows, requirement, data, raised, stored, statusLog, received,
                   createResult>>
    /\ OnlyCollect

\* line 304: dataset.status = 'processing'
MarkProcessingSkippedMutant(obj) == obj

MarkProcessing(obj) == [obj EXCEPT !.status = "processing"]

\* lines 304-305: dataset.status = 'processing'; dataset.save()
SetProcessing(h, dbOk) ==
    /\ pc[h] = "processing"
    /\ LET obj == MarkProcessing(dataset[h])
       IN  /\ dataset' = [dataset EXCEPT ![h] = obj]
           /\ IF dbOk
              THEN /\ SaveRow(h, obj)
                   /\ pc' = [pc EXCEPT ![h] = "config"]
                   /\ UNCHANGED exc
              ELSE /\ exc' = [exc EXCEPT ![h] = "OperationalError: database"]
                   /\ pc' = [pc EXCEPT ![h] = "except"]
                   /\ UNCHANGED <<rows, statusLog>>
    /\ UNCHANGED <<requirement, data, raised, stored, received, createResult>>
    /\ OnlyCollect

\* lines 308-309: config = DataSourceConfig(requirement)
BuildConfig(h) ==
    /\ pc[h] = "config"
    /\ IF requirement[h].isDict
       THEN /\ pc' = [pc EXCEPT ![h] = "dispatch"]
            /\ UNCHANGED exc
       ELSE /\ exc' = [exc EXCEPT ![h] = "AttributeError: get"]
            /\ pc' = [pc EXCEPT ![h] = "except"]
    /\ UNCHANGED <<rows, dataset, requirement, data, raised, stored, statusLog,
                   received, createResult>>
    /\ OnlyCollect

\* session.get (line 113) and requests.get (line 166) raise on a url of
\* None while building the request, before anything is sent.
UrlUsableAnyMutant(url) == TRUE

UrlUsable(url) == url # Absent

\* collect_from_api line 112: if config.method == 'GET'
SupportedMethodAnyMutant(method) == TRUE

SupportedMethod(method) == method = "GET"

\* collect_from_database lines 151-156
SupportedDbType(db_type) == db_type \in {"mysql", "mongodb", "sqlite"}

\* Why a strategy raises before it requests or queries anything ("" when
\* it goes on): lines 112/137, 113, 150-158, 166.
Rejection(strategy, req) ==
    CASE strategy = "collect_from_api" ->
             IF ~SupportedMethod(req.method) THEN "unsupported_method"
             ELSE IF ~UrlUsable(req.url) THEN "invalid_url" ELSE ""
      [] strategy = "collect_from_database" ->
             IF ~SupportedDbType(req.db_type) THEN "unsupported_db_type" ELSE ""
      [] strategy = "collect_from_web" ->
             IF ~UrlUsable(req.url) THEN "invalid_url" ELSE ""
      [] OTHER -> ""

Rejections ==
    {[kind |-> k, n |-> 0] : k \in {"unsupported_method", "invalid_url", "unsupported_db_type"}}

\* lines 312-321: dispatch on config.type; the strategy returns a value
\* (ok, v what it received) or fails (v how its call failed).
Dispatch(h, ok, v) ==
    /\ pc[h] = "dispatch"
    /\ LET strategy == Strategy(ConfigType(requirement[h]))
       IN  IF strategy = ""
           THEN /\ exc' = [exc EXCEPT ![h] = "ValueError: unsupported source type"]
                /\ pc' = [pc EXCEPT ![h] = "except"]
                /\ UNCHANGED <<data, received>>
           ELSE IF ok
           THEN /\ Rejection(strategy, requirement[h]) = ""
                /\ v \in StrategyValues(strategy)
                /\ received' = [received EXCEPT ![h] = v]
                /\ data' = [data EXCEPT ![h] =
                                IF strategy = "collect_from_api"
                                THEN collect_from_api(v) ELSE v]
                /\ pc' = [pc EXCEPT ![h] = "completed"]
                /\ UNCHANGED exc
           ELSE /\ IF Rejection(strategy, requirement[h]) = ""
                   THEN v \in StrategyFailures(strategy)
                   ELSE v = [kind |-> Rejection(strategy, requirement[h]), n |-> 0]
                /\ received' = [received EXCEPT ![h] = v]
                /\ IF OnFailure(strategy) = "raise"
                   THEN /\ exc' = [exc EXCEPT ![h] = StrategyError(strategy)]
                        /\ pc' = [pc EXCEPT ![h] = "except"]
                        /\ UNCHANGED data
                   ELSE /\ data' = [data EXCEPT ![h] = [kind |-> "list", n |-> 0]]
                        /\ pc' = [pc EXCEPT ![h] = "completed"]
                        /\ UNCHANGED exc
    /\ UNCHANGED <<rows, dataset, requirement, raised, stored, statusLog, createResult>>
    /\ OnlyCollect

\* lines 324-332: normalise data; dataset.status = 'completed';
\* dataset.size = len(data); dataset.save()
SetCompleted(h, dbOk) ==
    /\ pc[h] = "completed"
    /\ LET records == Normalize(data[h])
           obj == [dataset[h] EXCEPT !.status = "completed", !.size = records.n]
       IN  /\ data' = [data EXCEPT ![h] = records]
           /\ dataset' = [dataset EXCEPT ![h] = obj]
           /\ IF dbOk
              THEN /\ SaveRow(h, obj)
                   /\ pc' = [pc EXCEPT ![h] = "save_dataset"]
                   /\ UNCHANGED exc
              ELSE /\ exc' = [exc EXCEPT ![h] = "OperationalError: database"]
                   /\ pc' = [pc EXCEPT ![h] = "except"]
                   /\ UNCHANGED <<rows, statusLog>>
    /\ UNCHANGED <<requirement, raised, stored, received, createResult>>
    /\ OnlyCollect

\* lines 335-344: collector.storage.save_dataset(dataset, {...}); return True
SaveDataset(h, ioOk) ==
    /\ pc[h] = "save_dataset"
    /\ IF ioOk
       THEN /\ stored' = [stored EXCEPT ![h] = TRUE]
            /\ pc' = [pc EXCEPT ![h] = "returned"]
            /\ UNCHANGED exc
       ELSE /\ exc' = [exc EXCEPT ![h] = "OSError: save_dataset"]
            /\ pc' = [pc EXCEPT ![h] = "except"]
            /\ UNCHANGED stored
    /\ UNCHANGED <<rows, dataset, requirement, data, raised, statusLog, received,
                   createResult>>
    /\ OnlyCollect

\* lines 347-348: dataset.status = 'failed'; dataset.error_message = str(e)
FailedWithoutMessageMutant(obj, e) == [obj EXCEPT !.status = "failed"]

Failed(obj, e) == [obj EXCEPT !.status = "failed", !.error_message = e]

\* lines 345-351: except Exception as e: if dataset: status = 'failed',
\* error_message = str(e), save(); raise e.  A save() that fails raises
\* its own exception out of the handler, before `raise e`.
ExceptHandler(h, dbOk) ==
    /\ pc[h] = "except"
    /\ IF dataset[h].exists
       THEN LET obj == Failed(dataset[h], exc[h])
            IN  /\ dataset' = [dataset EXCEPT ![h] = obj]
                /\ IF dbOk
                   THEN /\ SaveRow(h, obj)
                        /\ raised' = [raised EXCEPT ![h] = exc[h]]
                        /\ pc' = [pc EXCEPT ![h] = "raised"]
                   ELSE /\ raised' = [raised EXCEPT ![h] = "OperationalError: database"]
                        /\ pc' = [pc EXCEPT ![h] = "handler_raised"]
                        /\ UNCHANGED <<rows, statusLog>>
       ELSE /\ raised' = [raised EXCEPT ![h] = exc[h]]
            /\ pc' = [pc EXCEPT ![h] = "raised"]
            /\ UNCHANGED <<rows, dataset, statusLog>>
    /\ UNCHANGED <<requirement, data, exc, stored, received, createResult>>
    /\ OnlyCollect

(***************************************************************************)
(*                               ProxyPool                                 *)
(***************************************************************************)

Proxies == {"p1", "p2"}

\* add_proxy's default score.
DefaultScore == 10
\* update_score's clamps; the source clamps at 100 (anti_crawler.py
\* line 65), scaled down here so that both ends of the scale are reached
\* from the default score.
MaxScore == 13
MinScore == 0

\* Scores handed to add_proxy(proxy, score): the default, the ends of the
\* scale, and a value off the scale.
AddScores == {MinScore, DefaultScore, MaxScore, MaxScore + 1}

Min(a, b) == IF a < b THEN a ELSE b
Max(a, b) == IF a > b THEN a ELSE b

\* redis hash operations; a hash is a function on the fields it holds.
HSet(hash, field, value) ==
    [f \in DOMAIN hash \cup {field} |-> IF f = field THEN value ELSE hash[f]]

HDel(hash, field) == [f \in DOMAIN hash \ {field} |-> hash[f]]

\* `hget(key, field) or default`
HGetOr(hash, field, default) == IF field \in DOMAIN hash THEN hash[field] ELSE default

EmptyHash == [f \in {} |-> 0]

NoPxOp == [op |-> "other", result |-> "", fetch |-> ""]

InitProxy ==
    /\ proxy_pool = {}
    /\ proxy_scores = EmptyHash
    /\ hcPending = {}
    /\ pxOp = NoPxOp
    /\ evicted = {}

\* update_score lines 64-67
NewScoreGrowsFasterMutant(current_score, success) ==
    IF success THEN Min(current_score + 2, MaxScore)
    ELSE Max(current_score - 1, MinScore)

NewScoreSymmetricMutant(current_score, success) ==
    IF success THEN Min(current_score + 1, MaxScore)
    ELSE Max(current_score - 1, MinScore)

NewScore(current_score, success) ==
    IF success THEN Min(current_score + 1, MaxScore)
    ELSE Max(current_score - 2, MinScore)

\* update_score line 69: the branch that removes the proxy
EvictNeverMutant(new_score) == FALSE

Evicts(new_score) == new_score = MinScore

\* The effect of add_proxy(proxy, score) on the store: sadd, hset
AddProxyEffect(proxy, score) ==
    /\ proxy_pool' = proxy_pool \cup {proxy}
    /\ proxy_scores' = HSet(proxy_scores, proxy, score)
    /\ evicted' = evicted \ {proxy}

\* add_proxy(proxy, score)
AddProxy(proxy, score) ==
    /\ AddProxyEffect(proxy, score)
    /\ pxOp' = [op |-> "other", result |-> "", fetch |-> ""]
    /\ UNCHANGED hcPending
    /\ OnlyProxy

\* remove_proxy(proxy): srem, hdel
RemoveProxy(proxy) ==
    /\ proxy_pool' = proxy_pool \ {proxy}
    /\ proxy_scores' = HDel(proxy_scores, proxy)
    /\ pxOp' = [op |-> "other", result |-> "", fetch |-> ""]
    /\ UNCHANGED <<hcPending, evicted>>
    /\ OnlyProxy

\* The effect of update_score(proxy, success) on the store.
UpdateScoreEffect(proxy, success) ==
    LET current_score == HGetOr(proxy_scores, proxy, DefaultScore)
        new_score == NewScore(current_score, success)
    IN  /\ IF Evicts(new_score)
           THEN /\ proxy_pool' = proxy_pool \ {proxy}
                /\ proxy_scores' = HDel(proxy_scores, proxy)
           ELSE /\ proxy_scores' = HSet(proxy_scores, proxy, new_score)
                /\ UNCHANGED proxy_pool
        /\ evicted' = IF new_score = MinScore THEN evicted \cup {proxy} ELSE evicted

\* update_score(proxy, success) called from the request path
UpdateScore(proxy, success) ==
    /\ UpdateScoreEffect(proxy, success)
    /\ pxOp' = [op |-> "other", result |-> "", fetch |-> ""]
    /\ UNCHANGED hcPending
    /\ OnlyProxy

\* get_proxy lines 55-59: the proxies that can come first when sorted by
\* `float(hget(score_key, proxy) or 0)`, highest first.
BestLowestMutant(proxies, scores) ==
    {p \in proxies : \A q \in proxies : HGetOr(scores, p, 0) <= HGetOr(scores, q, 0)}

Best(proxies, scores) ==
    {p \in proxies : \A q \in proxies : HGetOr(scores, p, 0) >= HGetOr(scores, q, 0)}

\* _fetch_new_proxies lines 98-111 and get_proxy lines 51-52: what
\* get_proxy gives its caller ("" = None) when the scrape added nothing,
\* because it failed (the exception is logged) or found no row.
EmptyFetchRaisesMutant(outcome) == IF outcome = "failed" THEN "raised" ELSE ""

EmptyFetchResult(outcome) == ""

\* The effect of get_proxy() on the store, and its result (in pxOp);
\* `fetched` is what _fetch_new_proxies scrapes when the pool is empty
\* (nothing when the scrape fails), each added with add_proxy; pxOp.fetch
\* tells how the scrape went ("" = there was none).
GetProxyEffect(fetched) ==
    LET replenish == proxy_pool = {}
        proxies == IF replenish THEN fetched ELSE proxy_pool
        scores == IF replenish
                  THEN [f \in DOMAIN proxy_scores \cup fetched |->
                           IF f \in fetched THEN DefaultScore ELSE proxy_scores[f]]
                  ELSE proxy_scores
        best == Best(proxies, scores)
    IN  /\ replenish \/ fetched = {}
        /\ proxy_pool' = proxies
        /\ proxy_scores' = scores
        /\ evicted' = IF replenish THEN evicted \ fetched ELSE evicted
        /\ IF proxies = {}
           THEN \E outcome \in {"failed", "empty"} :
                   pxOp' = [op |-> "get", result |-> EmptyFetchResult(outcome),
                            fetch |-> outcome]
           ELSE \E p \in best :
                   pxOp' = [op |-> "get", result |-> p,
                            fetch |-> IF replenish THEN "yielded" ELSE ""]

\* get_proxy()
GetProxy(fetched) ==
    /\ GetProxyEffect(fetched)
    /\ UNCHANGED hcPending
    /\ OnlyProxy

\* _check_proxies_periodically line 77: a pass starts from smembers
HealthCheckStart ==
    /\ hcPending = {}
    /\ proxy_pool # {}
    /\ hcPending' = proxy_pool
    /\ pxOp' = [op |-> "other", result |-> "", fetch |-> ""]
    /\ UNCHANGED <<proxy_pool, proxy_scores, evicted>>
    /\ OnlyProxy

\* _check_proxy(proxy): the probe's outcome goes to update_score
CheckProxy(proxy, success) ==
    /\ proxy \in hcPending
    /\ hcPending' = hcPending \ {proxy}
    /\ UpdateScoreEffect(proxy, success)
    /\ pxOp' = [op |-> "other", result |-> "", fetch |-> ""]
    /\ OnlyProxy


(***************************************************************************)
(*                               CookiePool                                *)
(***************************************************************************)

\* Domains are the same names the RateLimiter is asked about.
CookieDomains == {"xueqiu.com", "example.org"}
Cookies == {"c1", "c2"}

\* CookiePool.max_uses; the source sets 1000 (anti_crawler.py line 120),
\* scaled down here so that exhaustion is reached.
max_uses == 3

NoCkOp == [op |-> "none", domain |-> "", result |-> "", count |-> 0]
NoBurst == [active |-> FALSE, domain |-> "", cookie |-> "", n |-> 0, last |-> ""]

InitCookie ==
    /\ cookie_pool = [d \in CookieDomains |-> {}]
    /\ cookie_counter = EmptyHash
    /\ ckOp = NoCkOp
    /\ burst = NoBurst

\* get_cookie line 145: the use count is at the limit
ReachedMaxStrictMutant(count) == count > max_uses

ReachedMaxNeverMutant(count) == FALSE

ReachedMax(count) == count >= max_uses

\* An operation on `domain` or `cookie` ends the run of get calls recorded
\* in `burst`, unless it concerns neither its domain nor its cookie.
BurstAfter(domain, cookie) ==
    IF burst.active /\ (domain = burst.domain \/ cookie = burst.cookie)
    THEN NoBurst ELSE burst

\* add_cookie(domain, cookie): sadd, hset 0
AddCookie(domain, cookie) ==
    /\ cookie_pool' = [cookie_pool EXCEPT ![domain] = @ \cup {cookie}]
    /\ cookie_counter' = HSet(cookie_counter, cookie, 0)
    /\ ckOp' = [op |-> "add", domain |-> domain, result |-> "", count |-> 0]
    /\ burst' = IF cookie_pool[domain] \subseteq {cookie}
                THEN [active |-> TRUE, domain |-> domain, cookie |-> cookie,
                      n |-> 0, last |-> ""]
                ELSE BurstAfter(domain, cookie)
    /\ OnlyCookie

\* remove_cookie(domain, cookie): srem, hdel
RemoveCookie(domain, cookie) ==
    /\ cookie_pool' = [cookie_pool EXCEPT ![domain] = @ \ {cookie}]
    /\ cookie_counter' = HDel(cookie_counter, cookie)
    /\ ckOp' = [op |-> "remove", domain |-> domain, result |-> "", count |-> 0]
    /\ burst' = BurstAfter(domain, cookie)
    /\ OnlyCookie

\* get_cookie lines 136-141: the cookies that can come first when sorted
\* by `int(hget(cookie_counter_key, cookie) or 0)`, lowest first.
LeastMostUsedMutant(cookies, counter) ==
    {c \in cookies : \A o \in cookies : HGetOr(counter, c, 0) >= HGetOr(counter, o, 0)}

Least(cookies, counter) ==
    {c \in cookies : \A o \in cookies : HGetOr(counter, c, 0) <= HGetOr(counter, o, 0)}

\* The effect of get_cookie(domain) on the store, and its result (in ckOp)
GetCookieEffect(domain) ==
    LET cookies == cookie_pool[domain]
        least == Least(cookies, cookie_counter)
    IN  IF cookies = {}
        THEN /\ ckOp' = [op |-> "get", domain |-> domain, result |-> "", count |-> 0]
             /\ burst' = IF burst.active /\ burst.domain = domain
                         THEN IF burst.n > max_uses THEN NoBurst
                              ELSE [burst EXCEPT !.n = @ + 1, !.last = ""]
                         ELSE burst
             /\ UNCHANGED <<cookie_pool, cookie_counter>>
        ELSE \E cookie \in least :
             LET before == HGetOr(cookie_counter, cookie, 0)
                 counted == HSet(cookie_counter, cookie, before + 1)
             IN  /\ IF ReachedMax(counted[cookie])
                    THEN /\ cookie_pool' = [cookie_pool EXCEPT ![domain] = @ \ {cookie}]
                         /\ cookie_counter' = HDel(counted, cookie)
                    ELSE /\ cookie_counter' = counted
                         /\ UNCHANGED cookie_pool
                 /\ ckOp' = [op |-> "get", domain |-> domain, result |-> cookie,
                             count |-> before]
                 /\ burst' = IF burst.active /\ burst.domain = domain
                             THEN IF burst.n > max_uses THEN NoBurst
                                  ELSE [burst EXCEPT !.n = @ + 1, !.last = cookie]
                             ELSE BurstAfter("", cookie)

\* get_cookie(domain)
GetCookie(domain) ==
    /\ GetCookieEffect(domain)
    /\ OnlyCookie


(***************************************************************************)
(*                               RateLimiter                               *)
(***************************************************************************)

\* Last second of the clock.
MaxTime == 3
\* acquire calls started per (domain, window) key.
MaxCalls == 3

\* RateLimiter.window_size; the source sets 60 seconds (line 169),
\* scaled down.
window_size == 2
\* RateLimiter.max_requests['xueqiu.com'] and ['default']; the source sets
\* 50 and 100 (lines 171-173), scaled down.
QuotaXueqiu == 1
QuotaDefault == 2

\* Collectors sharing the store.
Collectors == {"w1", "w2"}
RateDomains == {"xueqiu.com", "example.org"}
Windows == 0..(MaxTime \div window_size)
Keys == RateDomains \X Windows

\* acquire line 184: self.max_requests.get(domain, self.max_requests['default'])
MaxRequests(domain) == IF domain = "xueqiu.com" THEN QuotaXueqiu ELSE QuotaDefault

\* acquire line 180: the window index of window_key
WindowIndexFrozenMutant(current_time) == 0

WindowIndex(current_time) == current_time \div window_size

\* acquire line 186: the call goes on to increment
AdmitAtQuotaMutant(count, max_requests) == count <= max_requests

Admit(count, max_requests) == count < max_requests

\* acquire lines 190-193: pipe.incr(window_key)
IncrEveryWindowMutant(key) ==
    [k \in Keys |-> IF k[1] = key[1] THEN rate_count[k] + 1 ELSE rate_count[k]]

Incr(key) == [rate_count EXCEPT ![key] = @ + 1]

\* acquire lines 190-193: pipe.expire(window_key, self.window_size)
Expire(key) == [rate_expire EXCEPT ![key] = now + window_size]

Idle == [pc |-> "idle", domain |-> "", window |-> 0, count |-> 0, result |-> "none"]

InitRate ==
    /\ now = 0
    /\ rate_count = [k \in Keys |-> 0]
    /\ rate_expire = [k \in Keys |-> 0]
    /\ rl = [c \in Collectors |-> Idle]
    /\ calls = [k \in Keys |-> 0]
    /\ granted = [k \in Keys |-> 0]

\* A second passes; the store drops the keys whose expiry has come.
TickEffect ==
    /\ now < MaxTime
    /\ now' = now + 1
    /\ LET due == {k \in Keys : rate_count[k] > 0 /\ rate_expire[k] <= now + 1}
       IN  /\ rate_count' = [k \in Keys |-> IF k \in due THEN 0 ELSE rate_count[k]]
           /\ rate_expire' = [k \in Keys |-> IF k \in due THEN 0 ELSE rate_expire[k]]

\* The clock advances.
Tick ==
    /\ TickEffect
    /\ UNCHANGED <<rl, calls, granted>>
    /\ OnlyRate

\* What acquire(domain) returns when nothing interleaves with it.
AcquireResult(domain) ==
    Admit(rate_count[<<domain, WindowIndex(now)>>], MaxRequests(domain))

\* The effect of acquire(domain) on the store, as one call that nothing
\* interleaves with.
AcquireEffect(domain) ==
    LET key == <<domain, WindowIndex(now)>>
    IN  /\ calls[key] < MaxCalls
        /\ calls' = [calls EXCEPT ![key] = @ + 1]
        /\ IF AcquireResult(domain)
           THEN /\ rate_count' = Incr(key)
                /\ rate_expire' = Expire(key)
                /\ granted' = [granted EXCEPT ![key] = @ + 1]
           ELSE UNCHANGED <<rate_count, rate_expire, granted>>

\* acquire(domain)
Acquire(domain) ==
    /\ \A o \in Collectors : rl[o].pc = "idle"
    /\ AcquireEffect(domain)
    /\ UNCHANGED <<now, rl>>
    /\ OnlyRate

\* acquire lines 179-180, in a collector that runs beside others:
\* current_time = int(time.time()); window_key = ...
AcquireTime(c, domain) ==
    /\ rl[c].pc = "idle"
    /\ calls[<<domain, WindowIndex(now)>>] < MaxCalls
    /\ calls' = [calls EXCEPT ![<<domain, WindowIndex(now)>>] = @ + 1]
    /\ rl' = [rl EXCEPT ![c] = [pc |-> "get", domain |-> domain,
                                window |-> WindowIndex(now), count |-> 0,
                                result |-> "none"]]
    /\ UNCHANGED <<now, rate_count, rate_expire, granted>>
    /\ OnlyRate

\* acquire lines 183-187: count = int(redis.get(window_key) or 0);
\* if count >= max_requests: return False
AcquireGet(c) ==
    /\ rl[c].pc = "get"
    /\ LET count == rate_count[<<rl[c].domain, rl[c].window>>]
       IN  IF Admit(count, MaxRequests(rl[c].domain))
           THEN rl' = [rl EXCEPT ![c].pc = "incr", ![c].count = count]
           ELSE rl' = [rl EXCEPT ![c].pc = "idle", ![c].count = count,
                                 ![c].result = "false"]
    /\ UNCHANGED <<now, rate_count, rate_expire, calls, granted>>
    /\ OnlyRate

\* acquire lines 190-195: the incr/expire pipeline; return True
AcquireIncr(c) ==
    /\ rl[c].pc = "incr"
    /\ LET key == <<rl[c].domain, rl[c].window>>
       IN  /\ rate_count' = Incr(key)
           /\ rate_expire' = Expire(key)
           /\ granted' = [granted EXCEPT ![key] = @ + 1]
    /\ rl' = [rl EXCEPT ![c].pc = "idle", ![c].result = "true"]
    /\ UNCHANGED <<now, calls>>
    /\ OnlyRate

(***************************************************************************)
(*                       RateLimiter.wait_if_needed                        *)
(***************************************************************************)

\* Time is counted modulo WaitPeriod, a whole number of windows: a window
\* index comes back only after the key written under it has expired.
WaitPeriod == Cardinality(Windows) * window_size

WtIdle == [pc |-> "idle", domain |-> "", permits |-> 0, window |-> 0, failed |-> FALSE]

InitWait == wt = [c \in Collectors |-> WtIdle]

\* wait_if_needed line 199: `while not await self.acquire(domain)`
KeepWaitingNeverMutant(acquired) == FALSE

KeepWaiting(acquired) == ~acquired

\* A second passes: the store drops the keys whose expiry has come, and the
\* callers in asyncio.sleep(1) (line 200) are due for their next poll.  The
\* event loop runs every poll in the second in which it is due.
WaitTick ==
    LET t == now + 1
        due == {k \in Keys : rate_count[k] > 0 /\ rate_expire[k] <= t}
        shift == IF t = WaitPeriod THEN WaitPeriod ELSE 0
    IN  /\ \A c \in Collectors : wt[c].pc # "acquire"
        /\ now' = t - shift
        /\ rate_count' = [k \in Keys |-> IF k \in due THEN 0 ELSE rate_count[k]]
        /\ rate_expire' = [k \in Keys |-> IF k \in due \/ rate_expire[k] = 0
                                          THEN 0 ELSE rate_expire[k] - shift]
        /\ wt' = [c \in Collectors |->
                    IF wt[c].pc = "sleep" THEN [wt[c] EXCEPT !.pc = "acquire"]
                    ELSE wt[c]]
        /\ OnlyWait

\* wait_if_needed(domain) is called
WaitStart(c, domain) ==
    /\ wt[c].pc = "idle"
    /\ wt' = [wt EXCEPT ![c] = [WtIdle EXCEPT !.pc = "acquire", !.domain = domain]]
    /\ UNCHANGED <<now, rate_count, rate_expire>>
    /\ OnlyWait

\* wait_if_needed lines 199-200: one poll, `await self.acquire(domain)`
\* (lines 177-195, which hold no await), then the loop test: sleep, or return
WaitAcquire(c) ==
    /\ wt[c].pc = "acquire"
    /\ LET domain == wt[c].domain
           key == <<domain, WindowIndex(now)>>
           acquired == AcquireResult(domain)
       IN  /\ IF acquired
              THEN /\ rate_count' = Incr(key)
                   /\ rate_expire' = Expire(key)
              ELSE UNCHANGED <<rate_count, rate_expire>>
           /\ wt' = [wt EXCEPT
                       ![c].pc = IF KeepWaiting(acquired) THEN "sleep" ELSE "returned",
                       ![c].permits = IF acquired THEN @ + 1 ELSE @,
                       ![c].window = IF acquired THEN key[2] ELSE @,
                       ![c].failed = IF acquired THEN @ ELSE TRUE]
    /\ UNCHANGED now
    /\ OnlyWait

\* The caller goes on after wait_if_needed returned (and may call it again).
WaitDone(c) ==
    /\ wt[c].pc = "returned"
    /\ wt' = [wt EXCEPT ![c] = WtIdle]
    /\ UNCHANGED <<now, rate_count, rate_expire>>
    /\ OnlyWait

(***************************************************************************)
(*                          collect_stream_data                            *)
(***************************************************************************)

\* Largest number of frames a connection delivers before it closes.
MaxFrames == 3

\* Values of stream_config['type'] tried.
StreamTypes == {"websocket", "sse", Absent}

\* Frames: text frames carrying the JSON text of 100 or of 200 or a text
\* that is no JSON, an error frame, and a frame of another type (binary).
Frames ==
    [type : {"TEXT"}, data : {"100", "200", "{"}]
    \cup {[type |-> "ERROR", data |-> ""], [type |-> "BINARY", data |-> ""]}

FrameSeqs == UNION {[1..n -> Frames] : n \in 0..MaxFrames}

\* line 202: json.loads(msg.data) succeeds
Decodable(text) == text \in {"100", "200"}

\* line 202: json.loads(msg.data)
json_loads(text) == IF text = "100" THEN 100 ELSE 200

SdIdle == [pc |-> "idle", type |-> "", connected |-> FALSE, frames |-> <<>>,
           seen |-> <<>>, callbacks |-> <<>>]

InitStream == sd = SdIdle

\* line 197: the stream type the call goes on with
IsWebsocketAnyMutant(type) == TRUE

IsWebsocket(type) == type = "websocket"

\* line 204: the frame type that breaks the loop
BreaksLoopNeverMutant(type) == FALSE

BreaksLoop(type) == type = "ERROR"

\* collect_stream_data(config, callback) is called; `frames` is what the
\* peer is going to send.
StreamStart(type, frames) ==
    /\ sd.pc = "idle"
    /\ sd' = [SdIdle EXCEPT !.pc = "check", !.type = type, !.frames = frames]
    /\ OnlyStream

\* lines 197, 206-210: the type test; another type raises ValueError
StreamCheckType ==
    /\ sd.pc = "check"
    /\ sd' = [sd EXCEPT !.pc = IF IsWebsocket(sd.type) THEN "connect" ELSE "raised"]
    /\ OnlyStream

\* lines 198-199: ClientSession(), session.ws_connect(config.url)
StreamConnect(ok) ==
    /\ sd.pc = "connect"
    /\ sd' = IF ok THEN [sd EXCEPT !.pc = "loop", !.connected = TRUE]
             ELSE [sd EXCEPT !.pc = "raised"]
    /\ OnlyStream

\* lines 200-203: a text frame arrives; json.loads, await callback(data).
\* A text that is no JSON, or a callback that raises, ends the call with
\* ValueError (lines 209-210).
StreamText(cbOk) ==
    /\ sd.pc = "loop"
    /\ sd.frames # <<>>
    /\ Head(sd.frames).type = "TEXT"
    /\ LET msg == Head(sd.frames)
       IN  sd' = [sd EXCEPT
                    !.frames = Tail(@),
                    !.seen = Append(@, msg),
                    !.callbacks = IF Decodable(msg.data)
                                  THEN Append(@, json_loads(msg.data)) ELSE @,
                    !.pc = IF Decodable(msg.data) /\ cbOk THEN "loop" ELSE "raised"]
    /\ OnlyStream

\* lines 200-205: a frame of another type arrives; an error frame breaks
\* the loop, any other is passed over.
StreamOther ==
    /\ sd.pc = "loop"
    /\ sd.frames # <<>>
    /\ Head(sd.frames).type # "TEXT"
    /\ sd' = [sd EXCEPT
                 !.frames = Tail(@),
                 !.seen = Append(@, Head(sd.frames)),
                 !.pc = IF BreaksLoop(Head(sd.frames).type) THEN "returned" ELSE "loop"]
    /\ OnlyStream

\* line 200: the connection closed, `async for` ends and the call returns
StreamEnd ==
    /\ sd.pc = "loop"
    /\ sd.frames = <<>>
    /\ sd' = [sd EXCEPT !.pc = "returned"]
    /\ OnlyStream

(***************************************************************************)
(*                 EnhancedDataCollector._check_rate_limit                 *)
(***************************************************************************)

\* self.rate_limit (line 68: 100), scaled down.
rate_limit == 2

\* The length of the throttle's interval in seconds (lines 250, 255: 60),
\* scaled down.
ThrottleWindow == 3

\* The last second of the clock.
ThrottleMaxTime == 6

\* Calls followed: enough to fill two intervals.
ThrottleMaxCalls == 2 * rate_limit + 1

\* __init__ lines 69-70
InitThrottle ==
    throttle = [now |-> 0, request_count |-> 0, last_request_time |-> 0, returned |-> <<>>]

\* line 250: the counter starts over
ResetDue(time_diff) == time_diff >= ThrottleWindow

\* A second passes.
ThrottleTick ==
    /\ throttle.now < ThrottleMaxTime
    /\ throttle' = [throttle EXCEPT !.now = @ + 1]
    /\ OnlyThrottle

\* _check_rate_limit(), lines 247-261; time.sleep (line 257) holds the
\* caller until the interval is over.
CheckRateLimit ==
    LET current_time == throttle.now
        time_diff == current_time - throttle.last_request_time
        count1 == IF ResetDue(time_diff) THEN 0 ELSE throttle.request_count
        last1 == IF ResetDue(time_diff) THEN current_time ELSE throttle.last_request_time
        sleep_time == ThrottleWindow - time_diff
        sleeps == count1 >= rate_limit /\ sleep_time > 0
        now2 == IF sleeps THEN current_time + sleep_time ELSE current_time
        count2 == IF sleeps THEN 0 ELSE count1
        last2 == IF sleeps THEN now2 ELSE last1
    IN  /\ Len(throttle.returned) < ThrottleMaxCalls
        /\ now2 <= ThrottleMaxTime
        /\ throttle' = [now |-> now2,
                        request_count |-> count2 + 1,
                        last_request_time |-> last2,
                        returned |-> Append(throttle.returned, now2)]
        /\ OnlyThrottle

(***************************************************************************)
(*            CookiePool.get_cookie run by several collectors              *)
(***************************************************************************)

\* The domain the collectors ask cookies for.
CcDomains == {"example.org"}

CcIdle == [pc |-> "idle", domain |-> "", cookies |-> {}, cookie |-> "", result |-> ""]

InitCookieConc ==
    /\ cc = [w \in Collectors |-> CcIdle]
    /\ handouts = [c \in Cookies |-> 0]
    /\ ckEvicted = {}
    /\ lateHandout = {}

\* get_cookie line 148: `return cookie`
CcReturn(w) ==
    /\ cc' = [cc EXCEPT ![w] = [CcIdle EXCEPT !.result = cc[w].cookie]]
    /\ handouts' = [handouts EXCEPT ![cc[w].cookie] = @ + 1]
    /\ lateHandout' = IF cc[w].cookie \in ckEvicted
                      THEN lateHandout \cup {cc[w].cookie} ELSE lateHandout

\* add_cookie(domain, cookie), called while no get_cookie is in progress
CcAddCookie(domain, cookie) ==
    /\ \A w \in Collectors : cc[w].pc = "idle"
    /\ cookie_pool' = [cookie_pool EXCEPT ![domain] = @ \cup {cookie}]
    /\ cookie_counter' = HSet(cookie_counter, cookie, 0)
    /\ handouts' = [handouts EXCEPT ![cookie] = 0]
    /\ ckEvicted' = ckEvicted \ {cookie}
    /\ UNCHANGED <<cc, lateHandout>>
    /\ OnlyCookieConc

\* get_cookie lines 130-133: cookies = smembers(key); if not cookies: return None
CcSmembers(w, domain) ==
    /\ cc[w].pc = "idle"
    /\ \A c \in Cookies : handouts[c] <= max_uses
    /\ cc' = [cc EXCEPT ![w] =
                 IF cookie_pool[domain] = {}
                 THEN [CcIdle EXCEPT !.result = "none"]
                 ELSE [pc |-> "pick", domain |-> domain,
                       cookies |-> cookie_pool[domain], cookie |-> "", result |-> ""]]
    /\ UNCHANGED <<cookie_pool, cookie_counter, handouts, ckEvicted, lateHandout>>
    /\ OnlyCookieConc

\* get_cookie lines 136-141: read the counts of the cookies seen, take a
\* least-used one
CcPick(w) ==
    /\ cc[w].pc = "pick"
    /\ \E cookie \in cc[w].cookies :
          /\ \A o \in cc[w].cookies :
                HGetOr(cookie_counter, cookie, 0) <= HGetOr(cookie_counter, o, 0)
          /\ cc' = [cc EXCEPT ![w].pc = "hincrby", ![w].cookie = cookie]
    /\ UNCHANGED <<cookie_pool, cookie_counter, handouts, ckEvicted, lateHandout>>
    /\ OnlyCookieConc

\* get_cookie line 142: hincrby(cookie_counter, cookie, 1)
CcHincrby(w) ==
    /\ cc[w].pc = "hincrby"
    /\ cookie_counter' = HSet(cookie_counter, cc[w].cookie,
                              HGetOr(cookie_counter, cc[w].cookie, 0) + 1)
    /\ cc' = [cc EXCEPT ![w].pc = "hget"]
    /\ UNCHANGED <<cookie_pool, handouts, ckEvicted, lateHandout>>
    /\ OnlyCookieConc

\* get_cookie lines 145-148: int(hget(cookie_counter, cookie)) >= max_uses
\* leads to remove_cookie, otherwise the cookie is returned; int(None)
\* raises TypeError when the field is gone.
CcHget(w) ==
    /\ cc[w].pc = "hget"
    /\ IF cc[w].cookie \notin DOMAIN cookie_counter
       THEN /\ cc' = [cc EXCEPT ![w] = [CcIdle EXCEPT !.result = "TypeError"]]
            /\ UNCHANGED <<handouts, lateHandout>>
       ELSE IF ReachedMax(cookie_counter[cc[w].cookie])
       THEN /\ cc' = [cc EXCEPT ![w].pc = "srem"]
            /\ UNCHANGED <<handouts, lateHandout>>
       ELSE CcReturn(w)
    /\ UNCHANGED <<cookie_pool, cookie_counter, ckEvicted>>
    /\ OnlyCookieConc

\* remove_cookie line 155: srem(key, cookie)
CcSrem(w) ==
    /\ cc[w].pc = "srem"
    /\ cookie_pool' = [cookie_pool EXCEPT ![cc[w].domain] = @ \ {cc[w].cookie}]
    /\ cc' = [cc EXCEPT ![w].pc = "hdel"]
    /\ UNCHANGED <<cookie_counter, handouts, ckEvicted, lateHandout>>
    /\ OnlyCookieConc

\* remove_cookie line 156: hdel(cookie_counter, cookie); then line 148
CcHdel(w) ==
    /\ cc[w].pc = "hdel"
    /\ cookie_counter' = HDel(cookie_counter, cc[w].cookie)
    /\ ckEvicted' = ckEvicted \cup {cc[w].cookie}
    /\ CcReturn(w)
    /\ UNCHANGED cookie_pool
    /\ OnlyCookieConc

(***************************************************************************)
(*        EnhancedDataCollector.clean_data / validate_data_privacy         *)
(***************************************************************************)

\* Largest number of records handed to clean_data.
MaxRows == 3
\* Largest number of records handed to validate_data_privacy.
MaxPrivRecords == 2

\* Column names of the records handed to clean_data.
CleanKeys == {"price", "volume"}

\* A cell of the DataFrame: a number num/den in lowest terms, or NaN/None.
NaN == [nan |-> TRUE, num |-> 0, den |-> 1]

Number(n) == [nan |-> FALSE, num |-> n, den |-> 1]

CellValues == {Number(1), Number(3), NaN}

CleanRecords == [CleanKeys -> CellValues]

\* Sequences over S of length at most n.
SeqUpTo(S, n) == UNION {[1..m -> S] : m \in 0..n}

RECURSIVE Gcd(_, _)
Gcd(a, b) == IF b = 0 THEN a ELSE Gcd(b, a % b)

\* The number n/d in lowest terms.
Ratio(n, d) == [nan |-> FALSE, num |-> n \div Gcd(n, d), den |-> d \div Gcd(n, d)]

\* pd.DataFrame(raw_data).columns
Columns(records) == IF records = <<>> THEN {} ELSE DOMAIN records[1]

\* clean_data lines 270-271: if fields: df = df[fields]
Project(records, flds) ==
    IF flds = {} THEN records
    ELSE [i \in 1..Len(records) |-> [k \in flds |-> records[i][k]]]

\* clean_data line 274: df.drop_duplicates() keeps the first of equal rows
DropDuplicates(records) ==
    LET keep(i) == \A j \in 1..(i - 1) : records[j] # records[i]
        F[i \in 0..Len(records)] ==
            IF i = 0 THEN <<>>
            ELSE IF keep(i) THEN Append(F[i - 1], records[i]) ELSE F[i - 1]
    IN  F[Len(records)]

\* df.mean(numeric_only=True)[k]: the mean of the numbers of column k,
\* NaN for a column that holds no number.
Mean(records, k) ==
    LET S[i \in 0..Len(records)] ==
            IF i = 0 THEN [num |-> 0, den |-> 1, count |-> 0]
            ELSE IF records[i][k].nan THEN S[i - 1]
            ELSE [num   |-> S[i - 1].num * records[i][k].den
                            + records[i][k].num * S[i - 1].den,
                  den   |-> S[i - 1].den * records[i][k].den,
                  count |-> S[i - 1].count + 1]
        total == S[Len(records)]
    IN  IF total.count = 0 THEN NaN ELSE Ratio(total.num, total.den * total.count)

\* clean_data line 277: df.fillna(df.mean(numeric_only=True))
FillNa(records) ==
    [i \in 1..Len(records) |->
        [k \in DOMAIN records[i] |->
            IF records[i][k].nan THEN Mean(records, k) ELSE records[i][k]]]

\* Result of a call: the records returned, or ValueError raised.
NotCalled == [called |-> FALSE, raised |-> FALSE, records |-> <<>>]

\* clean_data(raw_data, fields); df[fields] raises KeyError for a field
\* that is no column, which line 283 turns into ValueError.
clean_data(records, flds) ==
    IF flds # {} /\ ~(flds \subseteq Columns(records))
    THEN [called |-> TRUE, raised |-> TRUE, records |-> <<>>]
    ELSE [called |-> TRUE, raised |-> FALSE,
          records |-> FillNa(DropDuplicates(Project(records, flds)))]

\* Keys of the records handed to validate_data_privacy, as character codes.
PrivKeys == {
    <<115, 115, 110>>,   \* 'ssn'
    <<83, 83, 78>>,   \* 'SSN'
    <<69, 109, 97, 105, 108>>,   \* 'Email'
    <<112, 97, 115, 115, 119, 111, 114, 100>>,   \* 'password'
    <<67, 114, 101, 100, 105, 116, 95, 67, 97, 114, 100>>,   \* 'Credit_Card'
    <<112, 114, 105, 99, 101>>,   \* 'price'
    <<115, 115, 110, 95, 105, 100>>   \* 'ssn_id'
    }

\* EnhancedDataCollector.sensitive_fields (line 71)
sensitive_fields == {
    <<101, 109, 97, 105, 108>>,   \* 'email'
    <<112, 104, 111, 110, 101>>,   \* 'phone'
    <<112, 97, 115, 115, 119, 111, 114, 100>>,   \* 'password'
    <<115, 115, 110>>,   \* 'ssn'
    <<99, 114, 101, 100, 105, 116, 95, 99, 97, 114, 100>>   \* 'credit_card'
    }

\* A record is the set of its keys; the values play no part.
PrivRecords == {r \in SUBSET PrivKeys : Cardinality(r) <= 2}

\* str.lower() on one character
LowerIdentityMutant(ch) == ch

LowerChar(ch) == IF 65 <= ch /\ ch <= 90 THEN ch + 32 ELSE ch

\* validate_data_privacy line 291: field.lower()
Lower(field) == [i \in 1..Len(field) |-> LowerChar(field[i])]

\* validate_data_privacy(data): the Boolean returned
validate_data_privacy(records) ==
    ~ \E i \in 1..Len(records) : \E field \in records[i] :
          Lower(field) \in sensitive_fields

NoPrivacy == [called |-> FALSE, data |-> <<>>, after |-> <<>>, result |-> TRUE,
              raised |-> FALSE]

InitCleanIdle ==
    /\ raw_data = <<>>
    /\ fields = {}
    /\ cleaned = [once |-> NotCalled, twice |-> NotCalled]
    /\ privacy = NoPrivacy

\* A call clean_data(records, flds)
CleanData(records, flds) ==
    /\ ~cleaned.once.called
    /\ raw_data' = records
    /\ fields' = flds
    /\ cleaned' = [once |-> clean_data(records, flds), twice |-> NotCalled]
    /\ UNCHANGED privacy
    /\ OnlyClean

\* clean_data called on what clean_data returned, with the same fields
CleanAgain ==
    /\ cleaned.once.called
    /\ ~cleaned.once.raised
    /\ ~cleaned.twice.called
    /\ cleaned' = [cleaned EXCEPT !.twice = clean_data(cleaned.once.records, fields)]
    /\ UNCHANGED <<raw_data, fields, privacy>>
    /\ OnlyClean

\* A call validate_data_privacy(records)
ValidatePrivacy(records) ==
    /\ ~privacy.called
    /\ privacy' = [called |-> TRUE, data |-> records, after |-> records,
                   result |-> validate_data_privacy(records), raised |-> FALSE]
    /\ UNCHANGED <<raw_data, fields, cleaned>>
    /\ OnlyClean

(***************************************************************************)
(*                        AntiCrawler.make_request                         *)
(***************************************************************************)

\* make_request calls started.
MaxAttempts == 3

\* URLs handed to make_request, as url.split('/') sees them.
Urls == {<<"https:", "", "xueqiu.com", "quote">>, <<"https:", "", "example.org">>}

\* Cookies registered before the calls.
ExecCookies == {"c1"}

\* make_request line 244: domain = url.split('/')[2]
Domain(url) == url[3]

\* wait_if_needed line 199: the loop ends when acquire returned True
WaitOverAlwaysMutant(acquired) == TRUE

WaitOver(acquired) == acquired

\* get_session lines 237-238: `if proxy: session._proxy = proxy`, which
\* make_request tests with hasattr(session, '_proxy')
HasProxyAttrAlwaysMutant(proxy) == TRUE

HasProxyAttr(proxy) == proxy # ""

ExIdle == [pc |-> "idle", domain |-> "", proxy |-> "", cookie |-> "",
           has_proxy |-> FALSE, cookie_header |-> FALSE, status |-> "",
           result |-> ""]

InitExec ==
    /\ ex = ExIdle
    /\ trace = <<>>
    /\ feedback = <<>>
    /\ attempts = 0

\* Proxies added with the default score before the first call.
ExecAddProxy(proxy) ==
    /\ attempts = 0
    /\ AddProxy(proxy, DefaultScore)

\* Cookies registered before the first call.
ExecAddCookie(domain, cookie) ==
    /\ attempts = 0
    /\ AddCookie(domain, cookie)

\* make_request lines 244-245: the call starts
ExecStart(url) ==
    /\ ex.pc = "idle"
    /\ attempts < MaxAttempts
    /\ attempts' = attempts + 1
    /\ ex' = [ExIdle EXCEPT !.pc = "wait", !.domain = Domain(url)]
    /\ trace' = <<>>
    /\ feedback' = <<>>
    /\ UNCHANGED <<proxyVars, cookieVars, rateVars>>
    /\ OnlyExec

\* wait_if_needed line 199: one acquire(domain) of the loop
ExecAcquire ==
    /\ ex.pc = "wait"
    /\ AcquireEffect(ex.domain)
    /\ IF WaitOver(AcquireResult(ex.domain))
       THEN /\ ex' = [ex EXCEPT !.pc = "get_proxy"]
            /\ trace' = IF AcquireResult(ex.domain) THEN Append(trace, "permit")
                        ELSE trace
       ELSE /\ ex' = [ex EXCEPT !.pc = "sleep"]
            /\ UNCHANGED trace
    /\ UNCHANGED <<now, feedback, attempts, proxy_pool, proxy_scores, pxOp, evicted,
                   cookieVars>>
    /\ OnlyExec

\* wait_if_needed line 200: await asyncio.sleep(1)
ExecSleep ==
    /\ ex.pc = "sleep"
    /\ TickEffect
    /\ ex' = [ex EXCEPT !.pc = "wait"]
    /\ UNCHANGED <<calls, granted, trace, feedback, attempts, proxy_pool, proxy_scores,
                   pxOp, evicted, cookieVars>>
    /\ OnlyExec

\* get_session line 217: proxy = self.proxy_pool.get_proxy()
ExecGetProxy(fetched) ==
    /\ ex.pc = "get_proxy"
    /\ GetProxyEffect(fetched)
    /\ ex' = [ex EXCEPT !.pc = "get_cookie", !.proxy = pxOp'.result]
    /\ trace' = Append(trace, "proxy")
    /\ UNCHANGED <<feedback, attempts, cookieVars, now, rate_count, rate_expire,
                   calls, granted>>
    /\ OnlyExec

\* get_session lines 220-240: cookie = self.cookie_pool.get_cookie(domain);
\* the headers, with Cookie when there is one; the session, with _proxy
\* when there is a proxy
ExecGetCookie ==
    /\ ex.pc = "get_cookie"
    /\ GetCookieEffect(ex.domain)
    /\ ex' = [ex EXCEPT !.pc = "request", !.cookie = ckOp'.result,
                        !.cookie_header = (ckOp'.result # ""),
                        !.has_proxy = HasProxyAttr(ex.proxy)]
    /\ trace' = Append(trace, "cookie")
    /\ UNCHANGED <<feedback, attempts, proxy_pool, proxy_scores, pxOp, evicted, now,
                   rate_count, rate_expire, calls, granted>>
    /\ OnlyExec

\* make_request lines 248-250: session.request(method, url, **kwargs) gives
\* a response with status 200, one with another status, or raises
ExecRequest(status) ==
    /\ ex.pc = "request"
    /\ ex' = [ex EXCEPT !.pc = status, !.status = status]
    /\ trace' = Append(trace, "request")
    /\ UNCHANGED <<feedback, attempts, proxyVars, cookieVars, rateVars>>
    /\ OnlyExec

\* The update_score(session._proxy, success) of lines 252-253, 263-264 and
\* 270-271, made when the session has the attribute
ExecUpdateScore(success) ==
    IF ex.has_proxy
    THEN /\ UpdateScoreEffect(ex.proxy, success)
         /\ pxOp' = [op |-> "other", result |-> "", fetch |-> ""]
         /\ feedback' = Append(feedback, [proxy |-> ex.proxy, success |-> success])
         /\ trace' = Append(trace, "update")
    ELSE UNCHANGED <<proxy_pool, proxy_scores, pxOp, evicted, feedback, trace>>

\* make_request lines 250-253: status 200, the score update
ExecStatus200 ==
    /\ ex.pc = "200"
    /\ ExecUpdateScore(TRUE)
    /\ ex' = [ex EXCEPT !.pc = "decode"]
    /\ UNCHANGED <<attempts, cookieVars, rateVars>>
    /\ OnlyExec

\* make_request lines 256-260: return await response.json() or
\* response.text(), which returns the body or raises
ExecDecode(content, ok) ==
    /\ ex.pc = "decode"
    /\ ex' = IF ok THEN [ex EXCEPT !.pc = "idle", !.result = content]
             ELSE [ex EXCEPT !.pc = "exception"]
    /\ UNCHANGED <<trace, feedback, attempts, proxyVars, cookieVars, rateVars>>
    /\ OnlyExec

\* make_request lines 261-265: another status: the score update; return None
ExecNon200 ==
    /\ ex.pc = "non200"
    /\ ExecUpdateScore(FALSE)
    /\ ex' = [ex EXCEPT !.pc = "idle", !.result = "none"]
    /\ UNCHANGED <<attempts, cookieVars, rateVars>>
    /\ OnlyExec

\* make_request lines 267-272: except Exception: the score update;
\* return None
ExecExcept ==
    /\ ex.pc = "exception"
    /\ ExecUpdateScore(FALSE)
    /\ ex' = [ex EXCEPT !.pc = "idle", !.result = "none"]
    /\ UNCHANGED <<attempts, cookieVars, rateVars>>
    /\ OnlyExec

(***************************************************************************)
(*      ProxyPool run by the request path, the health checker and an       *)
(*      administrator at once: one step per redis call                     *)
(***************************************************************************)

\* Largest number of update_score calls started in one history.
MaxUpdates == 3

\* The request path (make_request: get_proxy, later update_score), the
\* health-check thread (lines 74-92) and a caller of add_proxy /
\* remove_proxy.
Threads == {"request", "health", "admin"}
Updaters == {"request", "health"}

\* The proxy the threads work on.
ConcProxies == {"p1"}

\* Scores handed to add_proxy here: the default and one a failure away
\* from eviction.
ConcAddScores == {2, DefaultScore}

PtIdle == [pc |-> "idle", proxy |-> "", score |-> 0, proxies |-> {}]

\* A score entry as update_score meets it: a value, or no field.
NoEntry == [present |-> FALSE, score |-> 0]
Entry(scores, proxy) ==
    IF proxy \in DOMAIN scores THEN [present |-> TRUE, score |-> scores[proxy]]
    ELSE NoEntry

NoEpisode == [base |-> NoEntry, t |-> 0, f |-> 0, tainted |-> TRUE]

InitProxyConc ==
    /\ pt = [t \in Threads |-> PtIdle]
    /\ held = [t \in Updaters |-> {}]
    /\ episode = [p \in ConcProxies |-> NoEpisode]
    /\ puStarted = 0

\* An update_score call on the proxy is between its read and its write.
Updating(proxy) ==
    \E t \in Updaters : pt[t].pc \in {"hset", "srem", "hdel"} /\ pt[t].proxy = proxy

\* update_score(proxy, success) run alone on a score entry.
SerialUpdate(entry, success) ==
    LET current_score == IF entry.present THEN entry.score ELSE DefaultScore
        new_score == NewScore(current_score, success)
    IN  IF Evicts(new_score) THEN NoEntry ELSE [present |-> TRUE, score |-> new_score]

\* The entries that t successes and f failures lead to, run one after the
\* other in any order.
RECURSIVE SerialOutcomes(_, _, _)
SerialOutcomes(entry, t, f) ==
    IF t = 0 /\ f = 0 THEN {entry}
    ELSE (IF t > 0 THEN SerialOutcomes(SerialUpdate(entry, TRUE), t - 1, f) ELSE {})
         \cup (IF f > 0 THEN SerialOutcomes(SerialUpdate(entry, FALSE), t, f - 1) ELSE {})

\* add_proxy line 36: sadd
PcAddSadd(proxy, score) ==
    /\ pt["admin"].pc = "idle"
    /\ proxy_pool' = proxy_pool \cup {proxy}
    /\ pt' = [pt EXCEPT !["admin"] = [PtIdle EXCEPT !.pc = "add_hset", !.proxy = proxy,
                                                    !.score = score]]
    /\ UNCHANGED <<proxy_scores, held, episode, puStarted>>
    /\ OnlyProxyConc

\* add_proxy line 37: hset; a history of updates starts from this score
\* unless an update of the proxy is under way.
PcAddHset ==
    /\ pt["admin"].pc = "add_hset"
    /\ proxy_scores' = HSet(proxy_scores, pt["admin"].proxy, pt["admin"].score)
    /\ episode' = [episode EXCEPT ![pt["admin"].proxy] =
                      [base |-> [present |-> TRUE, score |-> pt["admin"].score],
                       t |-> 0, f |-> 0, tainted |-> Updating(pt["admin"].proxy)]]
    /\ pt' = [pt EXCEPT !["admin"] = PtIdle]
    /\ UNCHANGED <<proxy_pool, held, puStarted>>
    /\ OnlyProxyConc

\* remove_proxy(proxy) called by the administrator; its two steps are
\* PcSrem and PcHdel.
PcRemoveStart(proxy) ==
    /\ pt["admin"].pc = "idle"
    /\ pt' = [pt EXCEPT !["admin"] = [PtIdle EXCEPT !.pc = "srem", !.proxy = proxy]]
    /\ episode' = [episode EXCEPT ![proxy].tainted = TRUE]
    /\ UNCHANGED <<proxy_pool, proxy_scores, held, puStarted>>
    /\ OnlyProxyConc

\* remove_proxy line 41: srem
PcSrem(t) ==
    /\ pt[t].pc = "srem"
    /\ proxy_pool' = proxy_pool \ {pt[t].proxy}
    /\ pt' = [pt EXCEPT ![t].pc = "hdel"]
    /\ UNCHANGED <<proxy_scores, held, episode, puStarted>>
    /\ OnlyProxyConc

\* remove_proxy line 42: hdel
PcHdel(t) ==
    /\ pt[t].pc = "hdel"
    /\ proxy_scores' = HDel(proxy_scores, pt[t].proxy)
    /\ pt' = [pt EXCEPT ![t] = PtIdle]
    /\ UNCHANGED <<proxy_pool, held, episode, puStarted>>
    /\ OnlyProxyConc

\* get_proxy lines 46-52: smembers; on an empty set the scrape of
\* _fetch_new_proxies yields nothing here and get_proxy returns None.
PcGetSmembers ==
    /\ pt["request"].pc = "idle"
    /\ held["request"] = {}
    /\ IF proxy_pool = {}
       THEN UNCHANGED pt
       ELSE pt' = [pt EXCEPT !["request"] = [PtIdle EXCEPT !.pc = "scores",
                                                         !.proxies = proxy_pool]]
    /\ UNCHANGED <<proxy_pool, proxy_scores, held, episode, puStarted>>
    /\ OnlyProxyConc

\* get_proxy lines 55-59: read the scores of the proxies seen, return a
\* best one; make_request keeps it for its update_score.
PcGetScores ==
    /\ pt["request"].pc = "scores"
    /\ \E p \in pt["request"].proxies :
          /\ \A q \in pt["request"].proxies :
                HGetOr(proxy_scores, p, 0) >= HGetOr(proxy_scores, q, 0)
          /\ held' = [held EXCEPT !["request"] = {p}]
    /\ pt' = [pt EXCEPT !["request"] = PtIdle]
    /\ UNCHANGED <<proxy_pool, proxy_scores, episode, puStarted>>
    /\ OnlyProxyConc

\* _check_proxies_periodically line 77: a pass starts from smembers
PcHealthSmembers ==
    /\ pt["health"].pc = "idle"
    /\ held["health"] = {}
    /\ proxy_pool # {}
    /\ held' = [held EXCEPT !["health"] = proxy_pool]
    /\ UNCHANGED <<proxy_pool, proxy_scores, pt, episode, puStarted>>
    /\ OnlyProxyConc

\* update_score line 63-69, called by make_request with the proxy it got
\* or by _check_proxy with a proxy of the pass: hget, and the new score
PcUpdateHget(t, success) ==
    /\ pt[t].pc = "idle"
    /\ puStarted < MaxUpdates
    /\ \E proxy \in held[t] :
          LET current_score == HGetOr(proxy_scores, proxy, DefaultScore)
              new_score == NewScore(current_score, success)
          IN  /\ pt' = [pt EXCEPT ![t] =
                           [PtIdle EXCEPT !.pc = IF Evicts(new_score) THEN "srem" ELSE "hset",
                                          !.proxy = proxy, !.score = new_score]]
              /\ held' = [held EXCEPT ![t] = @ \ {proxy}]
              /\ episode' = [episode EXCEPT ![proxy] =
                                IF success THEN [@ EXCEPT !.t = @ + 1]
                                ELSE [@ EXCEPT !.f = @ + 1]]
    /\ puStarted' = puStarted + 1
    /\ UNCHANGED <<proxy_pool, proxy_scores>>
    /\ OnlyProxyConc

\* update_score line 72: hset
PcUpdateHset(t) ==
    /\ pt[t].pc = "hset"
    /\ proxy_scores' = HSet(proxy_scores, pt[t].proxy, pt[t].score)
    /\ pt' = [pt EXCEPT ![t] = PtIdle]
    /\ UNCHANGED <<proxy_pool, held, episode, puStarted>>
    /\ OnlyProxyConc

(***************************************************************************)
(*          ProxyPool: decay of the score of a failing proxy               *)
(***************************************************************************)

\* The proxy whose decay is followed.
DecayProxies == {"p1"}

\* History of a proxy's updates: `base` is the score the current run of
\* updates started from, `fails` the failures of the run, `ups` the
\* successes that followed one failure.
NoStreak == [base |-> 0, fails |-> 0, ups |-> 0]

InitDecay ==
    /\ streak = [p \in DecayProxies |-> NoStreak]
    /\ failing = {}

\* The history after update_score(proxy, success) on a pooled proxy.
StreakAfter(proxy, success) ==
    LET st == streak[proxy]
        current_score == HGetOr(proxy_scores, proxy, DefaultScore)
    IN  IF success
        THEN IF st.fails = 1 /\ st.ups < 2
             THEN [st EXCEPT !.ups = @ + 1]
             ELSE [base |-> NewScore(current_score, TRUE), fails |-> 0, ups |-> 0]
        ELSE IF st.ups = 0
             THEN [st EXCEPT !.fails = @ + 1]
             ELSE [base |-> current_score, fails |-> 1, ups |-> 0]

\* add_proxy(proxy, score) for a proxy that is not bound to fail
DecayAdd(proxy, score) ==
    /\ proxy \notin failing
    /\ AddProxyEffect(proxy, score)
    /\ pxOp' = [op |-> "other", result |-> "", fetch |-> ""]
    /\ streak' = [streak EXCEPT ![proxy] = [base |-> score, fails |-> 0, ups |-> 0]]
    /\ UNCHANGED <<hcPending, failing>>
    /\ OnlyDecay

\* From here on every probe of the proxy and every request through it
\* fails, and nobody adds it again.
DecayStartFailing(proxy) ==
    /\ proxy \in proxy_pool
    /\ proxy \notin failing
    /\ failing' = failing \cup {proxy}
    /\ UNCHANGED <<proxyVars, streak>>
    /\ OnlyDecay

\* make_request lines 252-253, 263-264, 270-271: update_score for the
\* pooled proxy the request went through
DecayRequest(proxy, success) ==
    /\ proxy \in proxy_pool
    /\ success => proxy \notin failing
    /\ UpdateScoreEffect(proxy, success)
    /\ pxOp' = [op |-> "other", result |-> "", fetch |-> ""]
    /\ streak' = [streak EXCEPT ![proxy] = StreakAfter(proxy, success)]
    /\ UNCHANGED <<hcPending, failing>>
    /\ OnlyDecay

\* _check_proxies_periodically line 77: a pass starts from smembers
DecayHealthStart ==
    /\ hcPending = {}
    /\ proxy_pool # {}
    /\ hcPending' = proxy_pool
    /\ pxOp' = [op |-> "other", result |-> "", fetch |-> ""]
    /\ UNCHANGED <<proxy_pool, proxy_scores, evicted, streak, failing>>
    /\ OnlyDecay

\* _check_proxy(proxy) lines 84-92: the probe's outcome goes to
\* update_score
DecayProbe(proxy, success) ==
    /\ proxy \in hcPending
    /\ success => proxy \notin failing
    /\ hcPending' = hcPending \ {proxy}
    /\ UpdateScoreEffect(proxy, success)
    /\ pxOp' = [op |-> "other", result |-> "", fetch |-> ""]
    /\ streak' = IF proxy \in proxy_pool
                 THEN [streak EXCEPT ![proxy] = StreakAfter(proxy, success)]
                 ELSE streak
    /\ UNCHANGED failing
    /\ OnlyDecay

\* The health-check loop: `while True` in a daemon thread (lines 28-32,
\* 76-80); every pass probes each proxy it listed.
DecayHealth ==
    \/ DecayHealthStart
    \/ \E p \in DecayProxies, success \in BOOLEAN : DecayProbe(p, success)

(***************************************************************************)
(*                             Specifications                              *)
(***************************************************************************)

Init ==
    /\ InitCollect /\ InitProxy /\ InitCookie /\ InitRate
    /\ InitCookieConc /\ InitCleanIdle /\ InitExec /\ InitProxyConc
    /\ InitDecay /\ InitWait /\ InitStream /\ InitThrottle

NextCollect ==
    \E h \in Handles :
        \/ \E req \in Requirements, sync \in BOOLEAN : CreateCollectionTask(h, req, sync)
        \/ CreateReturns(h)
        \/ CreateRaises(h)
        \/ \E req \in Requirements : CollectDataTask(h, req)
        \/ \E dbOk \in BOOLEAN : GetDataset(h, dbOk)
        \/ \E dbOk \in BOOLEAN : SetProcessing(h, dbOk)
        \/ BuildConfig(h)
        \/ \E ok \in BOOLEAN, v \in ApiBodies \cup StrategyFailures("collect_from_api")
                                    \cup StrategyFailures("collect_from_database") :
               Dispatch(h, ok, v)
        \/ \E dbOk \in BOOLEAN : SetCompleted(h, dbOk)
        \/ \E ioOk \in BOOLEAN : SaveDataset(h, ioOk)
        \/ \E dbOk \in BOOLEAN : ExceptHandler(h, dbOk)

\* The steps of a collect_data run that has been started.
RunStep(h) ==
    \/ \E dbOk \in BOOLEAN : GetDataset(h, dbOk)
    \/ \E dbOk \in BOOLEAN : SetProcessing(h, dbOk)
    \/ BuildConfig(h)
    \/ \E ok \in BOOLEAN, v \in ApiBodies \cup StrategyFailures("collect_from_api")
                                \cup StrategyFailures("collect_from_database")
                                \cup Rejections :
           Dispatch(h, ok, v)
    \/ \E dbOk \in BOOLEAN : SetCompleted(h, dbOk)
    \/ \E ioOk \in BOOLEAN : SaveDataset(h, ioOk)
    \/ \E dbOk \in BOOLEAN : ExceptHandler(h, dbOk)

\* The handle whose run is followed to its end.
RunHandles == {1}

\* One task and its run of collect_data.
NextCollectRun ==
    \E h \in RunHandles :
        \/ \E req \in RunRequirements, sync \in BOOLEAN : CreateCollectionTask(h, req, sync)
        \/ CreateReturns(h)
        \/ CreateRaises(h)
        \/ \E req \in RunRequirements : CollectDataTask(h, req)
        \/ RunStep(h)

NextProxy ==
    \/ \E p \in Proxies, s \in AddScores : AddProxy(p, s)
    \/ \E p \in Proxies : RemoveProxy(p)
    \/ \E p \in Proxies, success \in BOOLEAN : UpdateScore(p, success)
    \/ \E fetched \in SUBSET Proxies : GetProxy(fetched)
    \/ HealthCheckStart
    \/ \E p \in Proxies, success \in BOOLEAN : CheckProxy(p, success)

NextCookie ==
    \/ \E d \in CookieDomains, c \in Cookies : AddCookie(d, c)
    \/ \E d \in CookieDomains, c \in Cookies : RemoveCookie(d, c)
    \/ \E d \in CookieDomains : GetCookie(d)

\* Collectors calling get_cookie concurrently against the shared store.
NextCookieConc ==
    \/ \E d \in CcDomains, c \in Cookies : CcAddCookie(d, c)
    \/ \E w \in Collectors, d \in CcDomains : CcSmembers(w, d)
    \/ \E w \in Collectors : CcPick(w)
    \/ \E w \in Collectors : CcHincrby(w)
    \/ \E w \in Collectors : CcHget(w)
    \/ \E w \in Collectors : CcSrem(w)
    \/ \E w \in Collectors : CcHdel(w)

\* Calls of clean_data, once and again on its result.
NextClean ==
    \/ \E records \in SeqUpTo(CleanRecords, MaxRows), flds \in SUBSET CleanKeys :
          CleanData(records, flds)
    \/ CleanAgain

\* Calls of validate_data_privacy.
NextPrivacy ==
    \E records \in SeqUpTo(PrivRecords, MaxPrivRecords) : ValidatePrivacy(records)

\* Calls of make_request, one after the other, on pools filled beforehand.
NextExec ==
    \/ \E p \in Proxies : ExecAddProxy(p)
    \/ \E d \in CookieDomains, c \in ExecCookies : ExecAddCookie(d, c)
    \/ \E url \in Urls : ExecStart(url)
    \/ ExecAcquire
    \/ ExecSleep
    \/ \E fetched \in SUBSET Proxies : ExecGetProxy(fetched)
    \/ ExecGetCookie
    \/ \E status \in {"200", "non200", "exception"} : ExecRequest(status)
    \/ ExecStatus200
    \/ \E content \in {"json", "text"}, ok \in BOOLEAN : ExecDecode(content, ok)
    \/ ExecNon200
    \/ ExecExcept

\* The request path, the health checker and an administrator working on
\* the shared proxy store, one redis call at a time.
NextProxyConc ==
    \/ \E p \in ConcProxies, s \in ConcAddScores : PcAddSadd(p, s)
    \/ PcAddHset
    \/ \E p \in ConcProxies : PcRemoveStart(p)
    \/ \E t \in Threads : PcSrem(t)
    \/ \E t \in Threads : PcHdel(t)
    \/ PcGetSmembers
    \/ PcGetScores
    \/ PcHealthSmembers
    \/ \E t \in Updaters, success \in BOOLEAN : PcUpdateHget(t, success)
    \/ \E t \in Updaters : PcUpdateHset(t)

\* Adds, request outcomes and health-check passes, some proxies failing
\* from some point on.
NextDecay ==
    \/ \E p \in DecayProxies, s \in AddScores : DecayAdd(p, s)
    \/ \E p \in DecayProxies : DecayStartFailing(p)
    \/ \E p \in DecayProxies, success \in BOOLEAN : DecayRequest(p, success)
    \/ DecayHealth

\* Calls of acquire one after the other.
NextRateSeq ==
    \/ Tick
    \/ \E d \in RateDomains : Acquire(d)

\* Collectors calling acquire concurrently against the shared store.
NextRate ==
    \/ Tick
    \/ \E c \in Collectors, d \in RateDomains : AcquireTime(c, d)
    \/ \E c \in Collectors : AcquireGet(c)
    \/ \E c \in Collectors : AcquireIncr(c)

\* Callers in wait_if_needed on one event loop, polling the shared store.
NextWait ==
    \/ WaitTick
    \/ \E c \in Collectors, d \in RateDomains : WaitStart(c, d)
    \/ \E c \in Collectors : WaitAcquire(c)
    \/ \E c \in Collectors : WaitDone(c)

\* One call of collect_stream_data.
NextStream ==
    \/ \E type \in StreamTypes, frames \in FrameSeqs : StreamStart(type, frames)
    \/ StreamCheckType
    \/ \E ok \in BOOLEAN : StreamConnect(ok)
    \/ \E cbOk \in BOOLEAN : StreamText(cbOk)
    \/ StreamOther
    \/ StreamEnd

\* A run of collect_data beside a call of collect_stream_data on a stream
\* that closes without a frame.
NextSubtype ==
    \/ NextCollectRun
    \/ \E type \in StreamTypes : StreamStart(type, <<>>)
    \/ StreamCheckType
    \/ \E ok \in BOOLEAN : StreamConnect(ok)
    \/ StreamEnd

\* One collector instance calling its throttle as time passes.
NextThrottle ==
    \/ ThrottleTick
    \/ CheckRateLimit

SpecCollect == Init /\ [][NextCollect]_vars
\* A started run keeps running: every call it makes returns or raises.
SpecCollectRun == /\ Init /\ [][NextCollectRun]_vars
                  /\ \A h \in RunHandles : WF_vars(RunStep(h))
\* The peer keeps sending or closes, and the loop takes what arrives.
SpecStream  == /\ Init /\ [][NextStream]_vars
               /\ WF_vars(StreamCheckType \/ (\E ok \in BOOLEAN : StreamConnect(ok)))
               /\ WF_vars((\E cbOk \in BOOLEAN : StreamText(cbOk)) \/ StreamOther \/ StreamEnd)
SpecSubtype == Init /\ [][NextSubtype]_vars
SpecThrottle == Init /\ [][NextThrottle]_vars
SpecProxy   == Init /\ [][NextProxy]_vars
SpecCookie  == Init /\ [][NextCookie]_vars
SpecRateSeq == Init /\ [][NextRateSeq]_vars
SpecRate    == Init /\ [][NextRate]_vars
\* The clock keeps advancing and every caller whose poll is due gets to run.
SpecWait    == /\ Init /\ [][NextWait]_vars
               /\ WF_vars(WaitTick)
               /\ \A c \in Collectors : WF_vars(WaitAcquire(c))
SpecCookieConc == Init /\ [][NextCookieConc]_vars
SpecClean   == Init /\ [][NextClean]_vars
SpecPrivacy == Init /\ [][NextPrivacy]_vars
SpecExec    == Init /\ [][NextExec]_vars
SpecProxyConc == Init /\ [][NextProxyConc]_vars
\* The health-check loop never stops.
SpecDecay   == Init /\ [][NextDecay]_vars /\ WF_vars(DecayHealth)


(***************************************************************************)
(*                                 Claims                                  *)
(***************************************************************************)

\* C1: the persisted status of a handle only moves forward along
\* pending -> processing -> {completed, failed}; in particular, once it is
\* completed or failed it is never changed again.
C1_TerminalStatusIsFinal ==
    \A h \in Handles :
        \A i \in 1..Len(statusLog[h]) :
            statusLog[h][i] \in {"completed", "failed"} => i = Len(statusLog[h])

\* C2: a handle whose persisted status is completed has had its records
\* saved by the storage (save_dataset returned), and a run that ended in an
\* exception never exposed the status completed.
C2_CompletedOnlyAfterSave ==
    \A h \in Handles :
        /\ rows[h].status = "completed" => stored[h]
        /\ pc[h] \in {"raised", "handler_raised"} =>
              \A i \in 1..Len(statusLog[h]) : statusLog[h][i] # "completed"

\* C3 as stated: whatever step raised, loading the handle included, the
\* handle ends failed with the exception text as its error_message and
\* that exception reaches the caller.
C3_AnyExceptionMarksFailed ==
    \A h \in Handles :
        exc[h] # "" /\ pc[h] \notin {"except"} =>
            /\ rows[h].status = "failed"
            /\ rows[h].error_message = exc[h]
            /\ raised[h] = exc[h]

\* C3 as amended: an exception never lets the run return normally; once
\* the handle is loaded, the handler sets status failed and the exception
\* text on the handle, and when its save succeeds the persisted handle is
\* failed with that text and the same exception is re-raised; when loading
\* the handle failed, the exception is re-raised and no status is written.
C3_ExceptionMarksLoadedHandleFailed ==
    \A h \in Handles :
        /\ exc[h] # "" => pc[h] \in {"except", "raised", "handler_raised"}
        /\ pc[h] = "raised" =>
              /\ exc[h] # "" /\ raised[h] = exc[h]
              /\ IF dataset[h].exists
                 THEN /\ dataset[h].status = "failed"
                      /\ dataset[h].error_message = exc[h]
                      /\ rows[h].status = "failed"
                      /\ rows[h].error_message = exc[h]
                 ELSE /\ rows[h].status \in {"", "pending"}
                      /\ rows[h].error_message = ""
        /\ pc[h] = "handler_raised" =>
              /\ raised[h] # ""
              /\ dataset[h].status = "failed"
              /\ dataset[h].error_message = exc[h]

\* C3 witness: a run that loaded its handle, met an unsupported source
\* type, and left the handle failed with that text.
C3_Witness ==
    \E h \in Handles :
        /\ pc[h] = "raised"
        /\ raised[h] = "ValueError: unsupported source type"
        /\ rows[h].status = "failed"
        /\ rows[h].error_message = raised[h]

\* C4: every pooled proxy's stored score lies in [0, 100] (here
\* [MinScore, MaxScore]).
C4_ScoreInRange ==
    \A p \in proxy_pool \cap DOMAIN proxy_scores :
        MinScore <= proxy_scores[p] /\ proxy_scores[p] <= MaxScore

\* C5 as stated: a proxy whose score update_score brought to 0 is out of
\* the pool and not returned by get until added again, and get never
\* returns a proxy whose score is 0.
C5_GetNeverReturnsScoreZero ==
    /\ evicted \cap proxy_pool = {}
    /\ pxOp.op = "get" /\ pxOp.result # "" =>
          /\ pxOp.result \notin evicted
          /\ HGetOr(proxy_scores, pxOp.result, 0) # 0

\* C5 as amended: a proxy whose score update_score brought to 0 is out of
\* the pool at once and is not returned by any later get until it is
\* added again (by add_proxy or by get's replenishment).
C5_EvictedAtZeroNotReturned ==
    /\ evicted \cap proxy_pool = {}
    /\ pxOp.op = "get" /\ pxOp.result # "" =>
          /\ pxOp.result \notin evicted
          /\ pxOp.result \in proxy_pool

\* C5 witness: after an eviction at score 0, get returns another proxy.
C5_Witness ==
    /\ pxOp.op = "get"
    /\ pxOp.result # ""
    /\ evicted # {}

\* C6: under sequential calls, within one window the counter of a domain
\* never exceeds its quota Q and of n calls exactly min(n, Q) return true
\* (so Q of a burst of Q+1).
C6_BurstAdmitsExactlyQuota ==
    \A k \in Keys :
        /\ rate_count[k] <= MaxRequests(k[1])
        /\ granted[k] = Min(calls[k], MaxRequests(k[1]))

\* C6 witness: a burst of Q+1 calls in one window, Q of them admitted.
C6_Witness ==
    \E k \in Keys :
        /\ calls[k] = MaxRequests(k[1]) + 1
        /\ granted[k] = MaxRequests(k[1])
        /\ rate_count[k] = MaxRequests(k[1])

\* C7: under any interleaving of concurrent acquire calls, the calls that
\* return true for one window never outnumber the domain's quota.
C7_NeverOverQuota ==
    \A k \in Keys : granted[k] <= MaxRequests(k[1])

\* C8: acquire returning false changes no counter and no expiry; acquire
\* returning true adds one to the counter of (domain, current window) and
\* changes no other counter and no other key's expiry.
C8_AcquireFrame ==
    [][\A k \in Keys :
          calls'[k] # calls[k] =>
              /\ k[2] = WindowIndex(now)
              /\ IF granted'[k] # granted[k]
                 THEN /\ rate_count' = [rate_count EXCEPT ![k] = @ + 1]
                      /\ \A j \in Keys \ {k} : rate_expire'[j] = rate_expire[j]
                 ELSE /\ rate_count' = rate_count
                      /\ rate_expire' = rate_expire]_vars

\* C8 witness: a key that has admitted and refused calls while another
\* key holds a count.
C8_Witness ==
    \E k \in Keys :
        /\ granted[k] > 0
        /\ calls[k] > granted[k]
        /\ \E j \in Keys \ {k} : rate_count[j] > 0

\* C9: get_cookie never returns a cookie whose use count had already
\* reached max_uses when it was selected.
C9_NeverReturnsExhausted ==
    ckOp.op = "get" /\ ckOp.result # "" => ckOp.count < max_uses

\* C9 witness: a cookie handed out for the last time it may be.
C9_Witness ==
    /\ ckOp.op = "get"
    /\ ckOp.result # ""
    /\ ckOp.count = max_uses - 1
    /\ ckOp.result \notin cookie_pool[ckOp.domain]

\* C10: from a domain holding one cookie just added (count 0), successive
\* get(domain) calls, with no operation on that domain or that cookie in
\* between, return the cookie max_uses times and then none.
C10_SoleCookieExhausts ==
    burst.active /\ burst.n >= 1 =>
        /\ burst.n <= max_uses => burst.last = burst.cookie
        /\ burst.n > max_uses => burst.last = ""

\* C10 witness: the get after max_uses gets of the sole cookie.
C10_Witness ==
    /\ burst.active
    /\ burst.n = max_uses + 1
    /\ burst.last = ""

\* C11: under any interleaving of concurrent get_cookie calls, a cookie is
\* returned at most max_uses times between its registration and its
\* eviction, is never returned once its eviction has finished, and, when
\* no call is in progress, an evicted cookie has no use-counter entry.
C11_HandoutsBoundedUnderInterleaving ==
    /\ \A c \in Cookies : handouts[c] <= max_uses
    /\ lateHandout = {}
    /\ (\A w \in Collectors : cc[w].pc = "idle") =>
          \A c \in ckEvicted : c \notin DOMAIN cookie_counter

\* C12: clean is idempotent: for a record list r and a field list f
\* contained in the records' keys, clean(clean(r, f), f) returns and
\* equals clean(r, f).
C12_CleanIdempotent ==
    cleaned.twice.called /\ fields \subseteq Columns(raw_data) =>
        /\ ~cleaned.twice.raised
        /\ cleaned.twice.records = cleaned.once.records

\* C13: the records clean returns hold no two equal rows and (for a
\* non-empty field list) no key outside fields, imputed rows included.
C13_NoDuplicateRowsNoExtraKeys ==
    cleaned.once.called /\ ~cleaned.once.raised =>
        LET out == cleaned.once.records
        IN  /\ \A i, j \in 1..Len(out) : i # j => out[i] # out[j]
            /\ fields # {} => \A i \in 1..Len(out) : DOMAIN out[i] \subseteq fields

\* C14: validate_data_privacy returns false exactly when some key of some
\* record is a spelling, in any letter case, of email, phone, password, ssn
\* or credit_card; it returns true for the empty list, does not raise and
\* leaves the records as they were.
C14_PrivacyFalseIffSensitiveKey ==
    LET spellings == {
        <<115, 115, 110>>,   \* 'ssn'
        <<83, 83, 78>>,   \* 'SSN'
        <<69, 109, 97, 105, 108>>,   \* 'Email'
        <<112, 97, 115, 115, 119, 111, 114, 100>>,   \* 'password'
        <<67, 114, 101, 100, 105, 116, 95, 67, 97, 114, 100>>   \* 'Credit_Card'
    }
    IN  privacy.called =>
            /\ privacy.result = ~(\E i \in 1..Len(privacy.data) :
                                      privacy.data[i] \cap spellings # {})
            /\ privacy.data = <<>> => privacy.result
            /\ ~privacy.raised
            /\ privacy.after = privacy.data

\* C14 witness: a call refused because of a key that matches only after
\* lower-casing, beside a record with harmless keys.
C14_Witness ==
    /\ privacy.called
    /\ ~privacy.result
    /\ Len(privacy.data) = 2
    /\ \A i \in 1..Len(privacy.data) : privacy.data[i] \cap sensitive_fields = {}

\* C15: an api-type task (type absent or 'api') whose upstream call
\* succeeds with a body of N records and whose run returns ends with the
\* handle completed, of size N and stored, and the synchronous
\* create_collection_task returns that handle.
C15_ApiTaskCompletesWithSize ==
    \A h \in Handles :
        /\ pc[h] = "returned" /\ ConfigType(requirement[h]) = "api" =>
              /\ rows[h].status = "completed"
              /\ rows[h].size = BodyRecords(received[h])
              /\ stored[h]
        /\ createResult[h].kind = "dataset" /\ createResult[h].sync
           /\ ConfigType(requirement[h]) = "api" =>
              /\ createResult[h].status = "completed"
              /\ createResult[h].size = BodyRecords(received[h])

\* C15 witness: a synchronous api task, its type left out, that returned
\* a completed handle of MaxRecords records.
C15_Witness ==
    \E h \in Handles :
        /\ requirement[h].type = Absent
        /\ requirement[h].source_type = Absent
        /\ createResult[h].kind = "dataset"
        /\ createResult[h].sync
        /\ createResult[h].status = "completed"
        /\ createResult[h].size = MaxRecords
        /\ received[h].kind = "list"

\* C16: a task whose type is outside {api, database, web, stream} never
\* fetches, never stores and never returns normally; its run, the status
\* writes succeeding, ends with the handle failed with a non-empty
\* error_message and the exception raised to the caller, and the
\* synchronous create_collection_task raises.
C16_UnknownTypeFails ==
    \A h \in Handles :
        requirement[h].isDict
        /\ ConfigType(requirement[h]) \notin {"api", "database", "web", "stream"} =>
            /\ received[h] = NoData
            /\ data[h] = NoData
            /\ ~stored[h]
            /\ pc[h] # "returned"
            /\ pc[h] = "raised" /\ dataset[h].exists =>
                  /\ rows[h].status = "failed"
                  /\ rows[h].error_message # ""
                  /\ raised[h] # ""
            /\ createResult[h].sync => createResult[h].kind = "ValueError"

\* C16 witness: an 'ftp' task whose run set the handle failed and raised
\* out of create_collection_task.
C16_Witness ==
    \E h \in Handles :
        /\ requirement[h].type = "ftp"
        /\ pc[h] = "raised"
        /\ raised[h] = "ValueError: unsupported source type"
        /\ rows[h].status = "failed"
        /\ createResult[h].kind = "ValueError"

\* C17: none of the four source types api, database, web and stream is
\* rejected by the dispatcher as an unsupported type.
C17_FourTypesDispatched ==
    \A h \in Handles :
        exc[h] = "ValueError: unsupported source type" =>
            ConfigType(requirement[h]) \notin {"api", "database", "web", "stream"}

\* C18: within one make_request call the steps come in the order rate
\* permit, proxy, cookie, HTTP request, proxy score update: the proxy is
\* drawn only once the permit is granted, the cookie after the proxy, and
\* no score update is made before the request has finished.
C18_StepsInOrder ==
    LET order == <<"permit", "proxy", "cookie", "request">>
    IN  /\ \A i \in 1..Len(trace) :
              IF i <= Len(order) THEN trace[i] = order[i] ELSE trace[i] = "update"
        /\ ex.pc = "get_proxy" => trace = <<"permit">>
        /\ ex.pc \in {"wait", "sleep", "get_proxy"} => ex.proxy = "" /\ ex.cookie = ""
        /\ feedback # <<>> => ex.status # ""

\* C18 witness: a finished call that had to wait for its permit and then
\* drew a proxy and a cookie, sent its request and fed the score.
C18_Witness ==
    /\ ex.pc = "idle"
    /\ now > 0
    /\ ex.proxy # ""
    /\ ex.cookie # ""
    /\ trace = <<"permit", "proxy", "cookie", "request", "update">>

\* C19: a finished call that had acquired a proxy has fed exactly
\* update_score(proxy, true) and returned the decoded body when the
\* response status was 200, and has fed exactly update_score(proxy, false)
\* and returned none when the status was not 200 or the request raised.
C19_OutcomeFeedsScoreOnce ==
    ex.pc = "idle" /\ ex.has_proxy =>
        /\ ex.status = "200" =>
              /\ feedback = <<[proxy |-> ex.proxy, success |-> TRUE]>>
              /\ ex.result \in {"json", "text"}
        /\ ex.status \in {"non200", "exception"} =>
              /\ feedback = <<[proxy |-> ex.proxy, success |-> FALSE]>>
              /\ ex.result = "none"

\* C20: a call that got no proxy makes no score update, a call that got
\* no cookie sends no Cookie header; either way it sends its one request
\* and returns, and it returns none only after a request that failed.
C20_EmptyPoolsDegrade ==
    LET requests == {i \in 1..Len(trace) : trace[i] = "request"}
    IN  /\ Len(trace) >= 2 /\ ex.proxy = "" =>
              feedback = <<>> /\ \A i \in 1..Len(trace) : trace[i] # "update"
        /\ ex.pc = "idle" /\ attempts > 0 /\ (ex.proxy = "" \/ ex.cookie = "") =>
              /\ Cardinality(requests) = 1
              /\ ex.result # ""
              /\ ex.proxy = "" => ~ex.has_proxy
              /\ ex.cookie = "" => ~ex.cookie_header
        /\ ex.result = "none" => ex.status # ""

\* C20 witness: a call that found both pools empty and returned the body
\* of its request.
C20_Witness ==
    /\ ex.pc = "idle"
    /\ ex.proxy = ""
    /\ ex.cookie = ""
    /\ ex.result = "json"
    /\ trace = <<"permit", "proxy", "cookie", "request">>

\* C21: a run whose transport call failed (non-success HTTP status or
\* network exception, api or web strategy) never has the handle completed
\* and never returns normally; once its exception has left collect_data,
\* the status write having succeeded, the handle is failed with a
\* non-empty error_message.
C21_TransportFailureEndsFailed ==
    \A h \in Handles :
        received[h] \in TransportFailures =>
            /\ rows[h].status # "completed"
            /\ pc[h] \notin {"completed", "save_dataset", "returned"}
            /\ ~stored[h]
            /\ pc[h] = "raised" =>
                  /\ rows[h].status = "failed"
                  /\ rows[h].error_message # ""
                  /\ raised[h] = exc[h]

\* C21 witnesses: a web run whose page answered with a non-success status
\* and an api run whose connection failed, both ended failed.
C21_Witness ==
    \E h, g \in Handles :
        /\ ConfigType(requirement[h]) = "web"
        /\ received[h].kind = "http_status"
        /\ pc[h] = "raised"
        /\ rows[h].status = "failed"
        /\ ConfigType(requirement[g]) = "api"
        /\ received[g].kind = "network"
        /\ pc[g] = "raised"
        /\ rows[g].status = "failed"

\* C22: update_score(proxy, success), from the request path or from a
\* health-check probe, on a pooled proxy of score s sets the score to
\* min(s+1, MaxScore) on success and to max(s-2, 0) on failure; a result
\* of 0 removes the proxy from the set and from the score map in that
\* step; membership and scores of all other proxies are unchanged.
C22_UpdateScoreEffect ==
    [][\A p \in Proxies, success \in BOOLEAN :
          (UpdateScore(p, success) \/ CheckProxy(p, success)) /\ p \in proxy_pool =>
              LET s == proxy_scores[p]
                  n == IF success
                       THEN (IF s + 1 < MaxScore THEN s + 1 ELSE MaxScore)
                       ELSE (IF s - 2 > 0 THEN s - 2 ELSE 0)
              IN  /\ n = 0 => p \notin proxy_pool' /\ p \notin DOMAIN proxy_scores'
                  /\ n # 0 => p \in proxy_pool' /\ p \in DOMAIN proxy_scores'
                                /\ proxy_scores'[p] = n
                  /\ \A q \in Proxies \ {p} :
                        /\ q \in proxy_pool' <=> q \in proxy_pool
                        /\ q \in DOMAIN proxy_scores' <=> q \in DOMAIN proxy_scores
                        /\ q \in DOMAIN proxy_scores => proxy_scores'[q] = proxy_scores[q]
      ]_vars

\* C22 witness: one proxy was brought to 0 by update_score and is gone
\* from set and map, while another, raised by one from the default score,
\* is still pooled.
C22_Witness ==
    \E p, q \in Proxies :
        /\ p \in evicted
        /\ p \notin proxy_pool
        /\ p \notin DOMAIN proxy_scores
        /\ q \in proxy_pool
        /\ proxy_scores[q] = DefaultScore + 1

\* C23: no lost updates on proxy scores: once the update_score calls
\* started on a proxy since it was added have all finished, its score
\* entry is the one that those updates, run one after the other in some
\* order, lead to from the score it was added with.
C23_NoLostUpdates ==
    \A p \in ConcProxies :
        ~episode[p].tainted /\ ~Updating(p) =>
            Entry(proxy_scores, p) \in
                SerialOutcomes(episode[p].base, episode[p].t, episode[p].f)

\* C24: whenever no ProxyPool call is under way, a proxy has a score
\* entry if and only if it is a member of the proxy set.
C24_SetAndScoresInStep ==
    (\A t \in Threads : pt[t].pc = "idle") =>
        \A p \in ConcProxies : p \in DOMAIN proxy_scores <=> p \in proxy_pool

\* C25: get_proxy() on a non-empty pool returns a pooled proxy whose score
\* is maximal among the pooled proxies, and changes neither the membership
\* of the pool nor any score.
C25_GetReturnsMaximal ==
    [][\A fetched \in SUBSET Proxies :
          GetProxy(fetched) /\ proxy_pool # {} =>
              /\ pxOp'.op = "get"
              /\ pxOp'.result \in proxy_pool
              /\ \A q \in proxy_pool : proxy_scores[pxOp'.result] >= proxy_scores[q]
              /\ proxy_pool' = proxy_pool
              /\ proxy_scores' = proxy_scores
      ]_vars

\* C25 witness: get_proxy returned the higher-scored of two pooled
\* proxies.
C25_Witness ==
    \E p, q \in Proxies :
        /\ pxOp.op = "get"
        /\ pxOp.result = p
        /\ {p, q} \subseteq proxy_pool
        /\ proxy_scores[p] > proxy_scores[q]

\* C26: get_proxy() on an empty pool makes one replenishment attempt; when
\* it fails or finds no proxy, get_proxy returns None without raising and
\* the store is as before; when it finds proxies, each is added with the
\* default score and get_proxy returns one of them.
C26_EmptyPoolReplenishes ==
    [][\A fetched \in SUBSET Proxies :
          GetProxy(fetched) /\ proxy_pool = {} =>
              /\ pxOp'.op = "get"
              /\ fetched = {} =>
                    /\ pxOp'.fetch \in {"failed", "empty"}
                    /\ pxOp'.result = ""
                    /\ proxy_pool' = {}
                    /\ proxy_scores' = proxy_scores
              /\ fetched # {} =>
                    /\ pxOp'.fetch = "yielded"
                    /\ pxOp'.result \in fetched
                    /\ proxy_pool' = fetched
                    /\ \A p \in fetched :
                          p \in DOMAIN proxy_scores' /\ proxy_scores'[p] = DefaultScore
                    /\ \A p \in Proxies \ fetched :
                          /\ p \in DOMAIN proxy_scores' <=> p \in DOMAIN proxy_scores
                          /\ p \in DOMAIN proxy_scores => proxy_scores'[p] = proxy_scores[p]
      ]_vars

\* C26 witness: get_proxy found the pool empty, the scrape failed, and
\* get_proxy returned None with the pool still empty.
C26_Witness ==
    /\ pxOp.op = "get"
    /\ pxOp.fetch = "failed"
    /\ pxOp.result = ""
    /\ proxy_pool = {}

C28_GetCookieEffect ==
    [][\A d \in CookieDomains :
          GetCookie(d) =>
              IF cookie_pool[d] = {}
              THEN /\ ckOp'.result = ""
                   /\ cookie_pool' = cookie_pool
                   /\ cookie_counter' = cookie_counter
              ELSE LET c == ckOp'.result
                       n == IF c \in DOMAIN cookie_counter THEN cookie_counter[c] ELSE 0
                   IN  /\ c \in cookie_pool[d]
                       /\ \A o \in cookie_pool[d] :
                             n <= (IF o \in DOMAIN cookie_counter
                                   THEN cookie_counter[o] ELSE 0)
                       /\ IF n + 1 < max_uses
                          THEN /\ c \in DOMAIN cookie_counter'
                               /\ cookie_counter'[c] = n + 1
                               /\ cookie_pool' = cookie_pool
                          ELSE /\ c \notin DOMAIN cookie_counter'
                               /\ cookie_pool'[d] = cookie_pool[d] \ {c}
                       /\ \A o \in Cookies \ {c} :
                             /\ o \in DOMAIN cookie_counter' <=> o \in DOMAIN cookie_counter
                             /\ o \in DOMAIN cookie_counter =>
                                   cookie_counter'[o] = cookie_counter[o]
                       /\ \A e \in CookieDomains \ {d} : cookie_pool'[e] = cookie_pool[e]
      ]_vars

\* C28 witness: of two cookies of a domain, get_cookie returned the less
\* used one and its count went up by one.
C28_Witness ==
    \E d \in CookieDomains, c, o \in Cookies :
        /\ ckOp.op = "get"
        /\ ckOp.domain = d
        /\ ckOp.result = c
        /\ {c, o} \subseteq cookie_pool[d]
        /\ c # o
        /\ {c, o} \subseteq DOMAIN cookie_counter
        /\ cookie_counter[c] = ckOp.count + 1
        /\ cookie_counter[o] > ckOp.count

\* C29: the use count of a cookie never goes down while the cookie stays
\* in a domain's pool, whatever add_cookie, get_cookie or remove_cookie
\* call is made on whatever domain, and no pooled cookie has a use count
\* of max_uses or more.
C29_UseCountMonotonic ==
    [][\A d \in CookieDomains, c \in Cookies :
          /\ c \in cookie_pool[d] /\ c \in cookie_pool'[d] =>
                HGetOr(cookie_counter', c, 0) >= HGetOr(cookie_counter, c, 0)
          /\ c \in cookie_pool'[d] => HGetOr(cookie_counter', c, 0) < max_uses
      ]_vars

\* C30: an add_cookie, get_cookie or remove_cookie call on one domain
\* changes neither the pool of another domain nor the use count of any
\* cookie in another domain's pool.
C30_DomainsIndependent ==
    [][\A e \in CookieDomains :
          ckOp'.domain # e =>
              /\ cookie_pool'[e] = cookie_pool[e]
              /\ \A c \in cookie_pool[e] :
                    HGetOr(cookie_counter', c, 0) = HGetOr(cookie_counter, c, 0)
      ]_vars

\* C31: an acquire(domain) call in window w returns true exactly when
\* fewer calls than the domain's quota have returned true in window w for
\* that domain, whatever was counted in earlier windows or for other
\* domains (so a domain at its quota in window k is admitted again in
\* window k+1); 'xueqiu.com' has its own quota, a domain without one the
\* default; and the counter of a window holds only the calls admitted in
\* that window.
C31_WindowsAndDomainsIndependent ==
    /\ [](\A k \in Keys : rate_count[k] \in {0, granted[k]})
    /\ [][\A d \in RateDomains :
            Acquire(d) =>
                LET k == <<d, now \div window_size>>
                    quota == IF d = "xueqiu.com" THEN QuotaXueqiu ELSE QuotaDefault
                IN  /\ granted'[k] = IF granted[k] < quota THEN granted[k] + 1
                                     ELSE granted[k]
                    /\ \A j \in Keys \ {k} : granted'[j] = granted[j]
                                               /\ rate_count'[j] = rate_count[j]
        ]_vars

\* C31 witness: 'xueqiu.com' reached its quota in window 0, was refused
\* there, and was admitted in window 1, while the domain without a quota
\* of its own used the whole default quota of window 0.
C31_Witness ==
    /\ granted[<<"xueqiu.com", 0>>] = QuotaXueqiu
    /\ calls[<<"xueqiu.com", 0>>] > QuotaXueqiu
    /\ granted[<<"xueqiu.com", 1>>] >= 1
    /\ granted[<<"example.org", 0>>] = QuotaDefault

\* C32: a wait_if_needed call that has returned counted exactly one permit,
\* and one that is still waiting counted none; the poll after which it
\* returns adds one to the counter of its domain in the window of that
\* moment and to no other counter, and a poll after which it goes on
\* waiting changes no counter.
C32_ReturnCountsOnePermit ==
    /\ [](\A c \in Collectors :
            /\ wt[c].pc = "returned" => wt[c].permits = 1
            /\ wt[c].pc \in {"acquire", "sleep"} => wt[c].permits = 0)
    /\ [][\A c \in Collectors :
            WaitAcquire(c) =>
                LET k == <<wt[c].domain, now \div window_size>>
                IN  IF wt'[c].pc = "returned"
                    THEN /\ rate_count'[k] = rate_count[k] + 1
                         /\ \A j \in Keys \ {k} : rate_count'[j] = rate_count[j]
                         /\ wt'[c].window = k[2]
                    ELSE rate_count' = rate_count
        ]_vars

\* C32 witness: a call returned in window 1 after at least one failed poll,
\* while the other caller is still waiting.
C32_Witness ==
    \E c, o \in Collectors :
        /\ wt[c].pc = "returned" /\ wt[c].failed /\ wt[c].window = 1
        /\ wt[o].pc = "sleep"

\* C33: every caller waiting in wait_if_needed eventually returns.
C33_EveryWaiterReturns ==
    \A c \in Collectors :
        (wt[c].pc \in {"acquire", "sleep"}) ~> (wt[c].pc = "returned")

\* C34: a finished make_request call that had acquired a proxy sent one
\* HTTP request and made one update_score call, for that proxy, with true
\* when the call returned a body and false when it returned none.
C34_OneRequestOneAgreeingUpdate ==
    ex.pc = "idle" /\ ex.has_proxy =>
        /\ Cardinality({i \in 1..Len(trace) : trace[i] = "request"}) = 1
        /\ Len(feedback) = 1
        /\ feedback[1].proxy = ex.proxy
        /\ feedback[1].success = (ex.result \in {"json", "text"})

C36_ConfigErrorsRejectedBeforeFetch ==
    /\ [](\A h \in Handles :
            LET req == requirement[h]
                type == ConfigType(req)
            IN  req.isDict
                /\ \/ type \in {"api", "web"} /\ req.url = Absent
                   \/ type = "database" /\ req.db_type = Absent
                =>  /\ received[h].kind \in {"none", "invalid_url", "unsupported_method",
                                              "unsupported_db_type"}
                    /\ data[h] = NoData
                    /\ ~stored[h]
                    /\ rows[h].status # "completed"
                    /\ pc[h] \notin {"completed", "save_dataset", "returned"}
                    /\ pc[h] = "raised" /\ received[h].kind # "none" =>
                          /\ rows[h].status = "failed"
                          /\ rows[h].error_message # "")
    /\ [][\A h \in Handles :
            pc[h] \in {"except", "raised", "handler_raised"} =>
                pc'[h] \in {"except", "raised", "handler_raised"}]_vars

\* C36 witness: a run on an api source without a url was rejected when it
\* built the request and left the handle failed.
C36_Witness ==
    \E h \in Handles :
        /\ ConfigType(requirement[h]) = "api"
        /\ requirement[h].url = Absent
        /\ received[h].kind = "invalid_url"
        /\ pc[h] = "raised"
        /\ rows[h].status = "failed"

\* C37: an api source with another method than GET, a database source with
\* a db_config type outside mysql, mongodb and sqlite, and a stream source
\* with a stream_config type other than websocket are rejected by their
\* strategy before anything is requested, queried or connected: the run of
\* collect_data fetches nothing, never completes and ends failed, and the
\* stream call raises without a connection, a frame or a callback.
C37_UnsupportedSubtypeRejected ==
    /\ \A h \in Handles :
          LET req == requirement[h]
              type == ConfigType(req)
          IN  req.isDict
              /\ \/ type = "api" /\ req.method # "GET"
                 \/ type = "database" /\ req.db_type \notin {"mysql", "mongodb", "sqlite"}
              =>  /\ received[h].kind \in {"none", "unsupported_method", "unsupported_db_type"}
                  /\ data[h] = NoData
                  /\ ~stored[h]
                  /\ rows[h].status # "completed"
                  /\ pc[h] \notin {"completed", "save_dataset", "returned"}
                  /\ pc[h] = "raised" /\ received[h].kind # "none" =>
                        /\ rows[h].status = "failed"
                        /\ rows[h].error_message # ""
    /\ sd.pc # "idle" /\ sd.type # "websocket" =>
          /\ sd.pc \in {"check", "raised"}
          /\ ~sd.connected
          /\ sd.seen = <<>>
          /\ sd.callbacks = <<>>

\* C37 witness: a run on an api source with method POST was rejected and
\* left the handle failed, and a stream call of type sse has raised.
C37_Witness ==
    /\ \E h \in Handles :
          /\ ConfigType(requirement[h]) = "api"
          /\ requirement[h].method = "POST"
          /\ received[h].kind = "unsupported_method"
          /\ pc[h] = "raised"
          /\ rows[h].status = "failed"
    /\ sd.type = "sse"
    /\ sd.pc = "raised"

\* C39 as stated: the callback has been invoked once for every text frame
\* the call received.
C39_CallbackOncePerTextFrame ==
    Len(sd.callbacks) = Cardinality({i \in 1..Len(sd.seen) : sd.seen[i].type = "TEXT"})

\* C39 as amended: the callback's invocations are the decoded values of the
\* received text frames that hold JSON, in arrival order; a text frame that
\* holds no JSON and an error frame are each the last frame the call
\* receives, the first ending it with an error and the second by return;
\* the call returns only on an error frame or when the stream has ended;
\* and a call in its loop eventually returns or raises.
C39_StreamLoop ==
    /\ [](LET json == SelectSeq(sd.seen, LAMBDA m : m.type = "TEXT" /\ m.data # "{")
          IN  /\ sd.callbacks = [i \in 1..Len(json) |->
                                    IF json[i].data = "100" THEN 100 ELSE 200]
              /\ \A i \in 1..Len(sd.seen) :
                    sd.seen[i].type = "ERROR" \/ sd.seen[i].data = "{" =>
                        /\ i = Len(sd.seen)
                        /\ sd.pc = IF sd.seen[i].type = "ERROR" THEN "returned" ELSE "raised"
              /\ sd.pc = "returned" =>
                    \/ sd.frames = <<>>
                    \/ sd.seen[Len(sd.seen)].type = "ERROR")
    /\ (sd.pc = "loop") ~> (sd.pc \in {"returned", "raised"})

\* C39 witness: the call received a text frame and an error frame with a
\* further text frame behind it, invoked the callback once, with 100, and
\* returned.
C39_Witness ==
    /\ sd.pc = "returned"
    /\ Len(sd.seen) = 2
    /\ sd.seen[2].type = "ERROR"
    /\ sd.frames # <<>>
    /\ Head(sd.frames).type = "TEXT"
    /\ sd.callbacks = <<100>>

\* C38 as stated: the result of the api strategy is a dict whose 'data' is a
\* list: the body's list, the 'data' list of the body, or the one-element
\* list of a bare object; and the size collect_data sets is the length of
\* that list.
C38_ApiResultAlwaysDataList ==
    \A h \in Handles :
        ConfigType(requirement[h]) = "api" =>
            /\ pc[h] = "completed" =>
                  /\ data[h].kind = "dict_data"
                  /\ data[h].n = IF received[h].kind \in {"list", "dict_data"}
                                 THEN received[h].n ELSE 1
            /\ pc[h] \in {"save_dataset", "returned"} =>
                  dataset[h].size = IF received[h].kind \in {"list", "dict_data"}
                                    THEN received[h].n ELSE 1

\* C38 as amended: a list body of n records and a dict body with a 'data'
\* list of n records give a dict with a 'data' list of n records; a bare
\* object gives a 'data' list of that one object when it is truthy and an
\* empty 'data' list when it is falsy; a dict body whose 'data' is no list
\* is handed back as it is; the size collect_data sets is the length of
\* the 'data' list, and 1 when 'data' is no list.
C38_ApiResultByBody ==
    \A h \in Handles :
        ConfigType(requirement[h]) = "api" =>
            /\ pc[h] = "completed" =>
                  data[h] = CASE received[h].kind \in {"list", "dict_data"} ->
                                     [kind |-> "dict_data", n |-> received[h].n]
                              [] received[h].kind = "object" ->
                                     [kind |-> "dict_data", n |-> 1]
                              [] received[h].kind = "falsy" ->
                                     [kind |-> "dict_data", n |-> 0]
                              [] OTHER -> received[h]
            /\ pc[h] \in {"save_dataset", "returned"} =>
                  dataset[h].size = CASE received[h].kind \in {"list", "dict_data"} ->
                                             received[h].n
                                      [] received[h].kind = "falsy" -> 0
                                      [] OTHER -> 1

\* C38 witness: an api run whose body was an empty object returned with a
\* completed handle of size 0.
C38_Witness ==
    \E h \in Handles :
        /\ ConfigType(requirement[h]) = "api"
        /\ received[h].kind = "falsy"
        /\ pc[h] = "returned"
        /\ rows[h].status = "completed"
        /\ rows[h].size = 0

\* C40: at every time t up to now, at most rate_limit calls of
\* _check_rate_limit returned within (t - 60, t] (60 being ThrottleWindow
\* here), and the request counter never exceeds rate_limit.
C40_RollingWindowCap ==
    /\ \A t \in 0..throttle.now :
          Cardinality({i \in 1..Len(throttle.returned) :
                          /\ throttle.returned[i] > t - ThrottleWindow
                          /\ throttle.returned[i] <= t}) <= rate_limit
    /\ throttle.request_count <= rate_limit

====
